---------------------------- MODULE Spec2Model ----------------------------
(***************************************************************************)
(* A model of AreaCon (src/AreaCon/areacon.cpp, areacon.h): the geometry   *)
(* primitives, Poly, Parameters, the Partition object and its controller   *)
(* CalculatePartition.                                                     *)
(*                                                                         *)
(* Numbers.  A C++ double is modelled as an exact extended rational        *)
(* [n |-> numerator, d |-> denominator] in lowest terms with d >= 0:       *)
(* d > 0 is the finite value n/d, <<1,0>> is +INFINITY, <<-1,0>> is        *)
(* -INFINITY and <<0,0>> is NaN.  Arithmetic and comparisons follow IEEE   *)
(* for the special values; rounding of finite values is not modelled.      *)
(***************************************************************************)
EXTENDS Integers, Sequences, FiniteSets, TLC

----------------------------------------------------------------------------
(* Extended rational arithmetic (the double type)                          *)

Abs(i) == IF i < 0 THEN -i ELSE i

Sign(i) == IF i < 0 THEN -1 ELSE IF i > 0 THEN 1 ELSE 0

RECURSIVE Gcd(_, _)
Gcd(a, b) == IF b = 0 THEN a ELSE Gcd(b, a % b)

Q(n, d) ==
    IF d = 0 THEN [n |-> Sign(n), d |-> 0]
    ELSE LET g == Gcd(Abs(n), Abs(d))
             s == IF d < 0 THEN -1 ELSE 1
         IN  [n |-> s * (n \div g), d |-> s * (d \div g)]

I(i) == [n |-> i, d |-> 1]

INFINITY == [n |-> 1, d |-> 0]
NegInf == [n |-> -1, d |-> 0]
NaN == [n |-> 0, d |-> 0]

isnan(x) == x.d = 0 /\ x.n = 0
isinf(x) == x.d = 0 /\ x.n # 0

Neg(x) == [n |-> -x.n, d |-> x.d]

Add(x, y) ==
    IF isnan(x) \/ isnan(y) THEN NaN
    ELSE IF isinf(x) THEN (IF isinf(y) /\ y.n # x.n THEN NaN ELSE x)
    ELSE IF isinf(y) THEN y
    ELSE LET g == Gcd(x.d, y.d)
         IN  Q(x.n * (y.d \div g) + y.n * (x.d \div g), (x.d \div g) * y.d)

Sub(x, y) == Add(x, Neg(y))

\* Common factors are cancelled before the products are formed.
Mul(x, y) ==
    IF x.d = 0 \/ y.d = 0 THEN Q(Sign(x.n) * Sign(y.n), 0)
    ELSE LET g1 == Gcd(Abs(x.n), y.d)
             g2 == Gcd(Abs(y.n), x.d)
         IN  IF g1 = 0 \/ g2 = 0 THEN Q(0, 1)
             ELSE Q((x.n \div g1) * (y.n \div g2), (x.d \div g2) * (y.d \div g1))

\* 1/y, keeping the sign in the numerator; 1/0 is +INFINITY (no negative zero)
Recip(y) ==
    IF y.n = 0 THEN (IF y.d = 0 THEN NaN ELSE INFINITY)
    ELSE IF y.n < 0 THEN [n |-> -y.d, d |-> -y.n]
    ELSE [n |-> y.d, d |-> y.n]

Div(x, y) ==
    IF isnan(x) \/ isnan(y) THEN NaN
    ELSE IF isinf(x) /\ isinf(y) THEN NaN
    ELSE IF x.n = 0 /\ y.n = 0 THEN NaN
    ELSE IF isinf(y) THEN Q(0, 1)
    ELSE IF y.n = 0 THEN Q(Sign(x.n), 0)
    ELSE IF isinf(x) THEN Q(Sign(x.n) * Sign(y.n), 0)
    ELSE Mul(x, Recip(y))

RECURSIVE LtPos(_, _, _, _)
\* a/b < c/d for a, c >= 0 and b, d > 0, by comparing the integer parts and
\* then the reciprocals of the fractional parts (no products are formed).
LtPos(a, b, c, d) ==
    LET qa == a \div b
        qc == c \div d
        ra == a % b
        rc == c % d
    IN  IF qa # qc THEN qa < qc
        ELSE IF rc = 0 THEN FALSE
        ELSE IF ra = 0 THEN TRUE
        ELSE LtPos(d, rc, b, ra)

\* x < y on finite values
LtFinite(x, y) ==
    IF x.n < 0 /\ y.n >= 0 THEN TRUE
    ELSE IF x.n >= 0 /\ y.n < 0 THEN FALSE
    ELSE IF x.n >= 0 THEN LtPos(x.n, x.d, y.n, y.d)
    ELSE LtPos(-y.n, y.d, -x.n, x.d)

\* x < y, false when either is NaN
Lt(x, y) ==
    IF isnan(x) \/ isnan(y) THEN FALSE
    ELSE IF x.d = 0 \/ y.d = 0
        THEN (IF x.d = 0 THEN x.n ELSE 0) < (IF y.d = 0 THEN y.n ELSE 0)
    ELSE LtFinite(x, y)

\* x <= y, false when either is NaN
Le(x, y) ==
    IF isnan(x) \/ isnan(y) THEN FALSE
    ELSE x = y \/ Lt(x, y)

Gt(x, y) == Lt(y, x)
Ge(x, y) == Le(y, x)

\* x == y on doubles (NaN equals nothing)
Eq(x, y) == ~isnan(x) /\ ~isnan(y) /\ x = y

\* x != y on doubles (true when either is NaN)
Ne(x, y) == ~Eq(x, y)

fabs(x) == [n |-> Abs(x.n), d |-> x.d]

fmin(x, y) == IF Lt(y, x) THEN y ELSE x
fmax(x, y) == IF Lt(x, y) THEN y ELSE x

RECURSIVE ISqrtBetween(_, _, _)
\* the r in lo..hi with r*r <= k < (r+1)*(r+1), by bisection
ISqrtBetween(k, lo, hi) ==
    IF lo >= hi THEN lo
    ELSE IF ((lo + hi + 1) \div 2) * ((lo + hi + 1) \div 2) <= k
        THEN ISqrtBetween(k, (lo + hi + 1) \div 2, hi)
    ELSE ISqrtBetween(k, lo, ((lo + hi + 1) \div 2) - 1)

\* floor of the square root of a natural number
ISqrt(k) == ISqrtBetween(k, 0, IF k < 46340 THEN k ELSE 46340)

\* F(v) with v evaluated once, before F is applied
With(v, F(_)) == CHOOSE r \in {F(x) : x \in {v}} : TRUE

\* Digits kept by sqrt: results that are not exact are rounded down to a
\* multiple of 1/SqrtDen (of a power of it for small arguments).
SqrtDen == 16

RECURSIVE sqrtFrom(_, _)
\* the largest multiple of 1/den that is at most the square root of x > 0,
\* with den refined until the result is not 0
sqrtFrom(x, den) ==
    IF ISqrt((x.n * den * den) \div x.d) = 0 THEN sqrtFrom(x, den * SqrtDen)
    ELSE Q(ISqrt((x.n * den * den) \div x.d), den)

\* sqrt on doubles: exact on squares of rationals, rounded down otherwise
sqrt(x) ==
    IF isnan(x) \/ x.n < 0 THEN NaN
    ELSE IF x.d = 0 THEN INFINITY
    ELSE IF x.n = 0 THEN I(0)
    ELSE IF ISqrt(x.n) * ISqrt(x.n) = x.n /\ ISqrt(x.d) * ISqrt(x.d) = x.d
        THEN Q(ISqrt(x.n), ISqrt(x.d))
    ELSE sqrtFrom(x, SqrtDen)

\* (long int) x: the integer part of a finite double
Trunc(x) == IF x.n >= 0 THEN x.n \div x.d ELSE -((-x.n) \div x.d)

RECURSIVE SumUpTo(_, _)
\* s[1] + ... + s[n], added in the order of the index
SumUpTo(s, n) == IF n = 0 THEN I(0) ELSE Add(SumUpTo(s, n - 1), s[n])

SumSeq(s) == SumUpTo(s, Len(s))

----------------------------------------------------------------------------
(* Point (areacon.cpp 33-127).  rc is the value of the process-wide        *)
(* Point::Robustness_Constant at the time of the call.                     *)

Pt(x, y) == [x |-> x, y |-> y]

\* Point::Point(): both coordinates default to INFINITY
DefaultPoint == Pt(INFINITY, INFINITY)

IsEqual(Test1, Test2) == Eq(Test1.x, Test2.x) /\ Eq(Test1.y, Test2.y)

\* The square of Distance(Test1, Test2)
Distance2(Test1, Test2) ==
    Add(Mul(Sub(Test1.x, Test2.x), Sub(Test1.x, Test2.x)),
        Mul(Sub(Test1.y, Test2.y), Sub(Test1.y, Test2.y)))

Distance(Test1, Test2) == sqrt(Distance2(Test1, Test2))

PointNorm(Test) == sqrt(Add(Mul(Test.x, Test.x), Mul(Test.y, Test.y)))

AddPoints(Test1, Test2) == Pt(Add(Test1.x, Test2.x), Add(Test1.y, Test2.y))

FlipDirection(p) == Pt(Neg(p.x), Neg(p.y))

Mult(p, factor) == Pt(Mul(factor, p.x), Mul(factor, p.y))

FindPointAlongLine(Test1, Test2, distance) ==
    Pt(Add(Test1.x, Mul(Sub(Test2.x, Test1.x), distance)),
       Add(Test1.y, Mul(Sub(Test2.y, Test1.y), distance)))

FindPerpDirection(Test1, Test2, Norm) ==
    LET distance == Distance(Test1, Test2)
    IN  IF Eq(distance, I(0)) THEN Pt(I(0), I(0))
        ELSE Pt(Mul(Div(Sub(Test2.y, Test1.y), distance), Norm),
                Mul(Div(Sub(Test1.x, Test2.x), distance), Norm))

\* The square of PerpDistanceToLine(Test1, Test2, Test3): the three branches
\* of the code, each result squared (all are absolute values).
PerpDistanceToLine2(rc, Test1, Test2, Test3) ==
    IF Lt(fabs(Sub(Test2.y, Test1.y)), rc)
        THEN Mul(Sub(Test3.y, Test2.y), Sub(Test3.y, Test2.y))
    ELSE IF Lt(fabs(Sub(Test2.x, Test1.x)), rc)
        THEN Mul(Sub(Test3.x, Test2.x), Sub(Test3.x, Test2.x))
    ELSE With(Sub(Add(Sub(Mul(Sub(Test2.y, Test1.y), Test3.x),
                          Mul(Sub(Test2.x, Test1.x), Test3.y)),
                      Mul(Test2.x, Test1.y)),
                  Mul(Test2.y, Test1.x)),
              LAMBDA c : Div(Mul(c, c), Distance2(Test1, Test2)))

\* PerpDistance/max_dist < tolerance, decided on the squares (both sides are
\* non-negative); 0/0 is NaN and compares false, as in the code.
AreCollinear(rc, Test1, Test2, Test3) ==
    With(<<Distance2(Test1, Test2), Distance2(Test2, Test3), Distance2(Test1, Test3)>>,
         LAMBDA d :
             LET m1 == IF Gt(d[2], d[1]) THEN d[2] ELSE d[1]
                 max_dist2 == IF Gt(d[3], m1) THEN d[3] ELSE m1
             IN  /\ Gt(rc, I(0))
                 /\ Lt(Div(PerpDistanceToLine2(rc, Test1, Test2, Test3), max_dist2),
                       Mul(rc, rc)))

\* distance = Distance(Test3,Test1)/Distance(Test2,Test1) is never < 0 and is
\* > 1 exactly when the squared ratio is.
AreBetween(rc, Test1, Test2, Test3) ==
    IF ~AreCollinear(rc, Test1, Test2, Test3) THEN FALSE
    ELSE LET distance2 == Div(Distance2(Test3, Test1), Distance2(Test2, Test1))
         IN  IF Gt(distance2, I(1)) THEN FALSE
             ELSE \/ Le(Sub(Test3.x, Test1.x), I(0)) /\ Le(Sub(Test2.x, Test1.x), I(0))
                  \/ Ge(Sub(Test3.x, Test1.x), I(0)) /\ Ge(Sub(Test2.x, Test1.x), I(0))

\* Point::FindCollinearIntersection(p1, p2, p3, p4): the list it returns
FindCollinearIntersection(rc, p1, p2, p3, p4) ==
    IF AreBetween(rc, p1, p2, p3) THEN
        IF AreBetween(rc, p1, p2, p4) THEN <<p3, p4>>
        ELSE IF AreBetween(rc, p3, p4, p1) /\ Gt(Distance2(p3, p1), Mul(rc, rc))
            THEN <<p3, p1>>
        ELSE IF AreBetween(rc, p3, p4, p2) /\ Gt(Distance2(p3, p2), Mul(rc, rc))
            THEN <<p3, p2>>
        ELSE <<p3>>
    ELSE IF AreBetween(rc, p1, p2, p4) THEN
        IF AreBetween(rc, p3, p4, p1) /\ Gt(Distance2(p4, p1), Mul(rc, rc))
            THEN <<p4, p1>>
        ELSE IF AreBetween(rc, p3, p4, p2) /\ Gt(Distance2(p2, p4), Mul(rc, rc))
            THEN <<p4, p2>>
        ELSE <<p4>>
    ELSE IF AreBetween(rc, p3, p4, p1) /\ AreBetween(rc, p3, p4, p2) THEN <<p1, p2>>
    ELSE <<>>

----------------------------------------------------------------------------
(* Poly (areacon.cpp 132-209)                                              *)

RECURSIVE MinOver(_, _), MaxOver(_, _)
\* The running minimum / maximum the loop of InitializePoly leaves, from the
\* start value acc: a coordinate replaces it only when strictly below/above.
MinOver(s, acc) ==
    IF s = <<>> THEN acc ELSE MinOver(Tail(s), IF Lt(Head(s), acc) THEN Head(s) ELSE acc)
MaxOver(s, acc) ==
    IF s = <<>> THEN acc ELSE MaxOver(Tail(s), IF Gt(Head(s), acc) THEN Head(s) ELSE acc)

Xs(V) == [k \in 1..Len(V) |-> V[k].x]
Ys(V) == [k \in 1..Len(V) |-> V[k].y]

\* The message InitializePoly throws for the vertex list V, "" when it returns.
\* The loop throws at the first vertex that is infinite or equals a later one.
InitializePolyError(V) ==
    IF V # <<>> /\ Len(V) < 3 THEN "List of vertices must contain at least 3 points"
    ELSE IF V = <<>> THEN ""
    ELSE LET bad == {k \in 1..Len(V) :
                        \/ isinf(V[k].x) \/ isinf(V[k].y)
                        \/ \E j \in (k + 1)..Len(V) : IsEqual(V[k], V[j])}
         IN  IF bad # {}
                 THEN LET k == CHOOSE b \in bad : \A c \in bad : b <= c
                      IN  IF isinf(V[k].x) \/ isinf(V[k].y)
                              THEN "Polygon vertices cannot be infinite"
                              ELSE "Polygon Vertices must all be distinct"
             ELSE IF \/ Eq(MinOver(Xs(V), INFINITY), MaxOver(Xs(V), NegInf))
                     \/ Eq(MinOver(Ys(V), INFINITY), MaxOver(Ys(V), NegInf))
                 THEN "Polygon must have non-zero nominal area"
             ELSE ""

\* The Poly object with vertex list V and its extrema as InitializePoly sets
\* them (for a valid list).
MakePoly(V) ==
    [Vertices |-> V, NPoly |-> Len(V),
     minx |-> MinOver(Xs(V), INFINITY), maxx |-> MaxOver(Xs(V), NegInf),
     miny |-> MinOver(Ys(V), INFINITY), maxy |-> MaxOver(Ys(V), NegInf)]

\* The members SetVertices(V) leaves when InitializePoly throws: the vertices
\* are stored, the extrema cover the vertices visited before the throw.
PolyAfterThrow(V) ==
    LET bad == {k \in 1..Len(V) :
                   \/ isinf(V[k].x) \/ isinf(V[k].y)
                   \/ \E j \in (k + 1)..Len(V) : IsEqual(V[k], V[j])}
        first == IF bad = {} THEN 0 ELSE CHOOSE b \in bad : \A c \in bad : b <= c
        seen == IF Len(V) < 3 THEN 0
                ELSE IF first = 0 THEN Len(V)
                ELSE IF isinf(V[first].x) \/ isinf(V[first].y) THEN first - 1
                ELSE first
        W == SubSeq(V, 1, seen)
    IN  [Vertices |-> V, NPoly |-> Len(V),
         minx |-> MinOver(Xs(W), INFINITY), maxx |-> MaxOver(Xs(W), NegInf),
         miny |-> MinOver(Ys(W), INFINITY), maxy |-> MaxOver(Ys(W), NegInf)]

\* Poly(): no vertices
EmptyPoly == MakePoly(<<>>)

RECURSIVE pnpolyFrom(_, _, _, _, _)
\* The loop of pnpoly from index ii on, with Test_1 the previous vertex and
\* value the parity so far.
pnpolyFrom(rc, V, Test, ii, value) ==
    IF ii > Len(V) THEN value
    ELSE LET Test_1 == IF ii = 1 THEN V[Len(V)] ELSE V[ii - 1]
             Test_2 == V[ii]
         IN  IF AreBetween(rc, Test_1, Test_2, Test) THEN TRUE
             ELSE LET inband ==
                          /\ \/ Lt(Test_1.y, Test.y) /\ Le(Test.y, Test_2.y)
                             \/ Le(Test.y, Test_1.y) /\ Lt(Test_2.y, Test.y)
                          /\ \/ Le(Test_1.x, Test.x) \/ Le(Test_2.x, Test.x)
                      cross ==
                          Lt(Add(Test_1.x,
                                 Div(Mul(Sub(Test.y, Test_1.y), Sub(Test_2.x, Test_1.x)),
                                     Sub(Test_2.y, Test_1.y))),
                             Test.x)
                  IN  pnpolyFrom(rc, V, Test, ii + 1,
                                 IF inband /\ cross THEN ~value ELSE value)

\* Poly::pnpoly for a polygon with vertices (the empty polygon throws
\* "Polygon vertices have not been initialized": see the callers).
pnpoly(rc, poly, Test) == pnpolyFrom(rc, poly.Vertices, Test, 1, FALSE)

----------------------------------------------------------------------------
(* Density (areacon.cpp 345-642).  A Density object is a record of its     *)
(* members; indices of the code (from 0) address sequences (from 1).       *)

\* Values[ii*Ny+jj]
ValueAt(D, ii, jj) == D.Values[ii * D.Ny + jj + 1]

\* Density::ConvertIndextoWorld for the grid point of column ii, row jj
\* (index ii*Ny+jj)
ConvertIndextoWorld(D, ii, jj) ==
    Pt(Add(D.minx, Mul(I(ii), D.dx)), Add(D.miny, Mul(I(jj), D.dy)))

\* Density::CheckParameterSizes: the message thrown ("" for none) and the
\* members it leaves
CheckParameterSizes(Region, Nx, Ny, Values) ==
    IF Region.NPoly = 0 \/ Nx = 0 \/ Ny = 0
        THEN [err |-> "", Nx |-> 0, Ny |-> 0, Values |-> <<>>]
    ELSE IF Nx * Ny # Len(Values)
        THEN [err |-> "The size of Values must be equal to Nx*Ny",
              Nx |-> Nx, Ny |-> Ny, Values |-> Values]
    ELSE [err |-> "", Nx |-> Nx, Ny |-> Ny, Values |-> Values]

\* Density::Setdxy: <<dx, dy>>
Setdxy(Region, Nx, Ny) ==
    IF Nx # 0 /\ Ny # 0
        THEN <<Div(Sub(Region.maxx, Region.minx), I(Nx - 1)),
               Div(Sub(Region.maxy, Region.miny), I(Ny - 1))>>
        ELSE <<I(0), I(0)>>

\* The coefficients CreateIntegralCoefficients pushes for the cell (ii, jj);
\* xval and yval have been advanced ii and jj times.
CellCoefficients(D, ii, jj) ==
    LET xval == Add(D.minx, Mul(I(ii), D.dx))
        yval == Add(D.miny, Mul(I(jj), D.dy))
        gamma == Neg(Mul(Div(I(1), Mul(D.dx, D.dy)),
                         Sub(Sub(Add(ValueAt(D, ii, jj), ValueAt(D, ii + 1, jj)),
                                 ValueAt(D, ii, jj)),
                             ValueAt(D, ii + 1, jj + 1))))
        eta == Div(Sub(ValueAt(D, ii + 1, jj), ValueAt(D, ii, jj)), D.dx)
        xi == Neg(Div(Sub(ValueAt(D, ii, jj), ValueAt(D, ii, jj + 1)), D.dy))
    IN  [a |-> Add(Mul(Neg(gamma), yval), eta),
         b |-> Add(Mul(Neg(gamma), xval), xi),
         c |-> gamma,
         d |-> Add(Sub(Sub(Mul(Mul(xval, yval), gamma), Mul(yval, xi)), Mul(xval, eta)),
                   ValueAt(D, ii, jj))]

\* The cells in the order of the loops: index ii*(Ny-1)+jj
CellColumn(D, k) == (k - 1) \div (D.Ny - 1)
CellRow(D, k) == (k - 1) % (D.Ny - 1)
NCells(D) == IF D.Nx >= 2 /\ D.Ny >= 2 THEN (D.Nx - 1) * (D.Ny - 1) ELSE 0

\* Density::CreateIntegralCoefficients: the four coefficient vectors
CreateIntegralCoefficients(D) ==
    [k \in 1..NCells(D) |-> CellCoefficients(D, CellColumn(D, k), CellRow(D, k))]

\* The grid points in the order CreateIntegralCoefficients pushes them to
\* GridInRegion: the columns with their last row, then the last column.
GridInRegionOrder(D) ==
    IF D.Nx < 2 THEN <<>>
    ELSE IF D.Ny < 2 THEN [k \in 1..D.Ny |-> <<D.Nx - 1, k - 1>>]
    ELSE [k \in 1..(D.Nx * D.Ny) |-> <<(k - 1) \div D.Ny, (k - 1) % D.Ny>>]

CreateGridInRegion(rc, D) ==
    [k \in 1..Len(GridInRegionOrder(D)) |->
        pnpoly(rc, D.Region, ConvertIndextoWorld(D, GridInRegionOrder(D)[k][1],
                                                 GridInRegionOrder(D)[k][2]))]

Cube(x) == Mul(x, Mul(x, x))

\* result, resultx and resulty of CreateIntegralVector for the cell (ii, jj)
\* with the coefficients co
CellIntegrals(D, ii, jj, co) ==
    LET xval == Add(D.minx, Mul(I(ii), D.dx))
        xval1 == Add(xval, D.dx)
        yval == Add(D.miny, Mul(I(jj), D.dy))
        yval1 == Add(yval, D.dy)
        x2 == Sub(Mul(xval1, xval1), Mul(xval, xval))
        y2 == Sub(Mul(yval1, yval1), Mul(yval, yval))
        x3 == Sub(Cube(xval1), Cube(xval))
        y3 == Sub(Cube(yval1), Cube(yval))
    IN  [Int |-> Add(Add(Add(Mul(Mul(D.dy, D.dx), co.d),
                             Mul(Div(Mul(D.dy, x2), I(2)), co.a)),
                         Mul(Div(Mul(D.dx, y2), I(2)), co.b)),
                     Mul(Div(Mul(y2, x2), I(4)), co.c)),
         Intx |-> Add(Add(Add(Div(Mul(Mul(D.dy, x2), co.d), I(2)),
                              Div(Mul(Mul(D.dy, x3), co.a), I(3))),
                          Mul(Div(Mul(x2, y2), I(4)), co.b)),
                      Mul(Div(Mul(y2, x3), I(6)), co.c)),
         Inty |-> Add(Add(Add(Div(Mul(Mul(y2, D.dx), co.d), I(2)),
                              Mul(Div(Mul(y2, x2), I(4)), co.a)),
                          Mul(Div(Mul(D.dx, y3), I(3)), co.b)),
                      Mul(Div(Mul(y3, x2), I(6)), co.c))]

\* the four corners of the cell (ii, jj) pass Region.pnpoly
CellInRegion(rc, D, ii, jj) ==
    /\ pnpoly(rc, D.Region, ConvertIndextoWorld(D, ii, jj))
    /\ pnpoly(rc, D.Region, ConvertIndextoWorld(D, ii + 1, jj))
    /\ pnpoly(rc, D.Region, ConvertIndextoWorld(D, ii, jj + 1))
    /\ pnpoly(rc, D.Region, ConvertIndextoWorld(D, ii + 1, jj + 1))

\* Density::CreateIntegralVector: the three integral vectors, the total it
\* returns and Unweighted_Area
CreateIntegralVector(rc, D, co) ==
    With(<<[k \in 1..NCells(D) |->
               CellIntegrals(D, CellColumn(D, k), CellRow(D, k), co[k])],
           [k \in 1..NCells(D) |-> CellInRegion(rc, D, CellColumn(D, k), CellRow(D, k))]>>,
         LAMBDA v :
             [Int |-> [k \in 1..NCells(D) |-> v[1][k].Int],
              Intx |-> [k \in 1..NCells(D) |-> v[1][k].Intx],
              Inty |-> [k \in 1..NCells(D) |-> v[1][k].Inty],
              Total |-> SumSeq([k \in 1..NCells(D) |->
                                   IF v[2][k] THEN v[1][k].Int ELSE I(0)]),
              Unweighted_Area |-> SumSeq([k \in 1..NCells(D) |->
                                   IF v[2][k] THEN Mul(D.dx, D.dy) ELSE I(0)])])

\* Int_Params(): empty vectors, Unweighted_Area 0
NoIntegral ==
    [Coefficient_a |-> <<>>, Coefficient_b |-> <<>>, Coefficient_c |-> <<>>,
     Coefficient_d |-> <<>>, Int |-> <<>>, Intx |-> <<>>, Inty |-> <<>>,
     Unweighted_Area |-> I(0)]

\* The Density members after SetExtrema and the first lines of SetParameters
\* (CheckParameterSizes has passed with the sizes cs, Setdxy has run)
DensityMembers(old, Region, cs) ==
    [Region |-> Region, Volume_Lower_Bound |-> old.Volume_Lower_Bound,
     Nx |-> cs.Nx, Ny |-> cs.Ny, Values |-> cs.Values,
     minx |-> Region.minx, miny |-> Region.miny,
     maxx |-> Region.maxx, maxy |-> Region.maxy,
     dx |-> Setdxy(Region, cs.Nx, cs.Ny)[1], dy |-> Setdxy(Region, cs.Nx, cs.Ny)[2],
     Integral |-> old.Integral, GridInRegion |-> old.GridInRegion,
     fault |-> old.fault]

RECURSIVE SetParameters(_, _, _, _, _, _)
\* Density::SetParameters(Nx, Ny, Values) on the object old whose Region is
\* set: [err, D].  PreprocessIntegral runs when there are samples; when the
\* integral over the cells inside the region is 0, NormalizeIntegralVector
\* makes the samples uniform and calls SetParameters again.  With no cell
\* inside the region (Unweighted_Area 0) that call finds a total of 0 again:
\* the recursion has no end and the stack overflows.
SetParameters(rc, old, Region, Nx, Ny, Values) ==
    With(CheckParameterSizes(Region, Nx, Ny, Values),
     LAMBDA cs :
        IF cs.err # ""
            THEN \* the throw comes before Setdxy
                 [err |-> cs.err,
                  D |-> [DensityMembers(old, Region, cs) EXCEPT !.dx = old.dx,
                                                                !.dy = old.dy]]
        ELSE IF cs.Values = <<>> THEN [err |-> "", D |-> DensityMembers(old, Region, cs)]
        ELSE
        With(DensityMembers(old, Region, cs),
         LAMBDA D1 :
          With(CreateIntegralCoefficients(D1),
           LAMBDA co :
            With(CreateIntegralVector(rc, D1, co),
             LAMBDA iv :
                LET coefficients ==
                        [Coefficient_a |-> [k \in 1..Len(co) |-> co[k].a],
                         Coefficient_b |-> [k \in 1..Len(co) |-> co[k].b],
                         Coefficient_c |-> [k \in 1..Len(co) |-> co[k].c],
                         Coefficient_d |-> [k \in 1..Len(co) |-> co[k].d],
                         Unweighted_Area |-> iv.Unweighted_Area]
                    D2 == [D1 EXCEPT !.GridInRegion = CreateGridInRegion(rc, D1)]
                IN  IF Eq(iv.Total, I(0)) THEN
                        IF Eq(iv.Unweighted_Area, I(0)) THEN
                            [err |-> "",
                             D |-> [D2 EXCEPT !.fault = "fault: stack overflow",
                                       !.Integral = coefficients @@
                                           [Int |-> iv.Int, Intx |-> iv.Intx,
                                            Inty |-> iv.Inty]]]
                        ELSE SetParameters(rc, D2, Region, Nx, Ny,
                                 [k \in 1..(Nx * Ny) |->
                                     Div(I(1), iv.Unweighted_Area)])
                    ELSE [err |-> "",
                          D |-> [D2 EXCEPT !.Integral = coefficients @@
                              [Int |-> [k \in 1..Len(iv.Int) |-> Div(iv.Int[k], iv.Total)],
                               Intx |-> [k \in 1..Len(iv.Intx) |-> Div(iv.Intx[k], iv.Total)],
                               Inty |-> [k \in 1..Len(iv.Inty) |->
                                            Div(iv.Inty[k], iv.Total)]]]]))))

\* The members before the body of a Density constructor runs
NewDensity ==
    [Region |-> EmptyPoly, Volume_Lower_Bound |-> I(0),
     Nx |-> 0, Ny |-> 0, Values |-> <<>>,
     minx |-> INFINITY, miny |-> INFINITY, maxx |-> NegInf, maxy |-> NegInf,
     dx |-> I(0), dy |-> I(0), Integral |-> NoIntegral, GridInRegion |-> <<>>,
     fault |-> ""]

\* Density::SetNewRegion(Region, Nx, Ny, Values): [err, D]
SetNewRegion(rc, old, Region, Nx, Ny, Values) ==
    SetParameters(rc, old, Region, Nx, Ny, Values)

\* Density::Density(Region, Nx, Ny, Values) for arguments it accepts, built
\* while the static Robustness_Constant is rc
Density(rc, Region, Nx, Ny, Values) ==
    SetNewRegion(rc, NewDensity, Region, Nx, Ny, Values).D

\* Density(Region): no samples (Nx = 0, Ny = 0, Values = {})
MakeDensity(Region) == Density(I(0), Region, 0, 0, <<>>)

\* Density(): no region
DefaultDensity == MakeDensity(EmptyPoly)

SetVolumeLowerBound(density, VolumeLowerBound) ==
    [density EXCEPT !.Volume_Lower_Bound = VolumeLowerBound]

\* GridInPolyTemp[ii*Ny+jj] as the loops of CalculateWeightedArea and
\* CalculateCentroid set it for the polygon Test: x0 and y0 have been
\* advanced ii and jj times.
GridInPoly(rc, D, Test) ==
    [ii \in 0..(D.Nx - 1) |->
        [jj \in 0..(D.Ny - 1) |->
            LET x0 == Add(D.minx, Mul(I(ii), D.dx))
                y0 == Add(D.miny, Mul(I(jj), D.dy))
            IN  IF Lt(x0, Test.minx) \/ Gt(x0, Test.maxx) THEN FALSE
                ELSE IF Lt(y0, Test.miny) \/ Gt(y0, Test.maxy) THEN FALSE
                ELSE pnpoly(rc, Test, Pt(x0, y0))]]

\* The cells whose integrals the loops add: cell index sizex*(ii-1)+jj-1 for
\* the grid points (ii, jj), ii > 0, jj > 0, whose cell has four corners set.
CellsInPoly(rc, D, Test) ==
    With(GridInPoly(rc, D, Test),
         LAMBDA g :
             [k \in 1..NCells(D) |->
                 LET ii == CellColumn(D, k) + 1
                     jj == CellRow(D, k) + 1
                 IN  g[ii][jj] /\ g[ii - 1][jj] /\ g[ii - 1][jj - 1] /\ g[ii][jj - 1]])

\* CalculateWeightedArea without the floor: the accumulated sum is returned
CalculateWeightedArea_NoFloor(rc, D, Test) ==
    IF Test.NPoly = 0 THEN D.Volume_Lower_Bound
    ELSE With(CellsInPoly(rc, D, Test),
              LAMBDA in : SumSeq([k \in 1..NCells(D) |->
                                     IF in[k] THEN D.Integral.Int[k] ELSE I(0)]))

\* Density::CalculateWeightedArea(Test) for a Density with samples (without
\* them it throws "Values have not been set!")
CalculateWeightedArea(rc, D, Test) ==
    IF Test.NPoly = 0 THEN D.Volume_Lower_Bound
    ELSE With(CellsInPoly(rc, D, Test),
              LAMBDA in :
                  With(SumSeq([k \in 1..NCells(D) |->
                                  IF in[k] THEN D.Integral.Int[k] ELSE I(0)]),
                       LAMBDA sum : IF Ge(sum, D.Volume_Lower_Bound)
                                        THEN sum ELSE D.Volume_Lower_Bound))

\* CalculateCentroid without the test of Volume against the lower bound
CalculateCentroid_NoFallback(rc, D, Test, Volume) ==
    IF Test.NPoly = 0 THEN DefaultPoint
    ELSE With(CellsInPoly(rc, D, Test),
              LAMBDA in :
                  Pt(Div(SumSeq([k \in 1..NCells(D) |->
                                    IF in[k] THEN D.Integral.Intx[k] ELSE I(0)]), Volume),
                     Div(SumSeq([k \in 1..NCells(D) |->
                                    IF in[k] THEN D.Integral.Inty[k] ELSE I(0)]), Volume)))

\* Density::CalculateCentroid(Test, Volume) for a Density with samples
CalculateCentroid(rc, D, Test, Volume) ==
    IF Test.NPoly = 0 THEN DefaultPoint
    ELSE IF Le(Volume, D.Volume_Lower_Bound) THEN Pt(Test.minx, Test.miny)
    ELSE With(CellsInPoly(rc, D, Test),
              LAMBDA in :
                  Pt(Div(SumSeq([k \in 1..NCells(D) |->
                                    IF in[k] THEN D.Integral.Intx[k] ELSE I(0)]), Volume),
                     Div(SumSeq([k \in 1..NCells(D) |->
                                    IF in[k] THEN D.Integral.Inty[k] ELSE I(0)]), Volume)))

\* The grid cell InterpolateValue reads for Test: <<i, j>>
InterpolateCell(D, Test) ==
    <<Trunc(Div(Sub(Test.x, D.minx), D.dx)), Trunc(Div(Sub(Test.y, D.miny), D.dy))>>

\* The reads of Values in InterpolateValue stay inside the vector
InterpolateInBounds(D, Test) ==
    /\ InterpolateCell(D, Test)[1] \in 0..(D.Nx - 1)
    /\ InterpolateCell(D, Test)[2] \in 0..(D.Ny - 1)

\* The bilinear formula of InterpolateValue from the four samples and the
\* offsets xr, ys
InterpolateFrom(val00, val10, val01, val11, xr, ys) ==
    With(<<Add(val00, Mul(Sub(val01, val00), ys)),
           Add(val01, Mul(Sub(val11, val01), xr)),
           Add(val10, Mul(Sub(val11, val10), ys)),
           Add(val00, Mul(Sub(val10, val00), xr))>>,
         LAMBDA v :
             \* v = <<val0s, valr1, val1s, valr0>>
             Add(Add(Add(Sub(Add(v[1], v[4]), val00),
                         Mul(xr, Sub(Sub(Add(val00, v[3]), v[1]), val10))),
                     Mul(ys, Sub(Sub(Add(val00, v[4]), val01), v[2]))),
                 Mul(Mul(xr, ys), Sub(Sub(Add(val01, val10), val00), val11))))

\* InterpolateValue for the cell (i, j) whose grid point is p
InterpolateAt(D, Test, i, j, p) ==
    With(<<IF i = D.Nx - 1 THEN I(0) ELSE Div(Sub(Test.x, p.x), D.dx),
           IF j = D.Ny - 1 THEN I(0) ELSE Div(Sub(Test.y, p.y), D.dy),
           IF i = D.Nx - 1 THEN i ELSE i + 1,
           IF j = D.Ny - 1 THEN j ELSE j + 1>>,
         LAMBDA o :
             \* o = <<xr, ys, i + 1, j + 1>>
             InterpolateFrom(ValueAt(D, i, j), ValueAt(D, o[3], j),
                             ValueAt(D, i, o[4]), ValueAt(D, o[3], o[4]), o[1], o[2]))

\* Density::InterpolateValue(Test) for a point whose cell is on the grid
InterpolateValue(D, Test) ==
    With(InterpolateCell(D, Test),
         LAMBDA c : InterpolateAt(D, Test, c[1], c[2], ConvertIndextoWorld(D, c[1], c[2])))

\* The message Density::LineIntegral throws, "" when it computes
LineIntegralError(D, spacing) ==
    IF D.Values = <<>> THEN "Values have not been set!"
    ELSE IF Le(spacing, I(0)) \/ Gt(spacing, I(1))
        THEN "Spacing cannot be less than or equal to 0 or greater than 1"
    ELSE ""

RECURSIVE LineIntegralFrom(_, _, _, _, _, _, _)
\* The loop "for (double ii = 0; ii<1-spacing; ii+=spacing)" from ii on
LineIntegralFrom(D, spacing, p1, p2, ii, previous, sum) ==
    IF ~Lt(ii, Sub(I(1), spacing)) THEN sum
    ELSE With(FindPointAlongLine(p1, p2, Add(ii, spacing)),
              LAMBDA Test :
                  With(InterpolateValue(D, Test),
                       LAMBDA previous2 :
                           LineIntegralFrom(D, spacing, p1, p2, Add(ii, spacing),
                                            previous2,
                                            Add(sum, Add(previous, previous2)))))

\* Density::LineIntegral(spacing, p1, p2) when it does not throw
LineIntegral(D, spacing, p1, p2) ==
    With(<<InterpolateValue(D, p1), Distance(p1, p2)>>,
         LAMBDA v :
             With(LineIntegralFrom(D, spacing, p1, p2, I(0), v[1], I(0)),
                  LAMBDA sum : Div(Mul(Mul(sum, spacing), v[2]), I(2))))

----------------------------------------------------------------------------
(* The polygon clipping primitive (ClipperLib), an external collaborator:  *)
(* intersection of integer-coordinate polygons, orientation, and the       *)
(* clean-up that merges close vertices.  Paths are sequences of IntPoint;  *)
(* the operands CreatePowerDiagram passes are convex.                      *)

IntPoint(X, Y) == [X |-> X, Y |-> Y]

\* (B - A) x (P - A): positive when P is to the left of the line from A to B
Cross(A, B, P) == (B.X - A.X) * (P.Y - A.Y) - (B.Y - A.Y) * (P.X - A.X)

\* the vertex after / before index k, cyclically
NextIdx(path, k) == IF k = Len(path) THEN 1 ELSE k + 1
PrevIdx(path, k) == IF k = 1 THEN Len(path) ELSE k - 1

RECURSIVE Area2From(_, _)
\* twice the signed area of a path, summed from index k on
Area2From(path, k) ==
    IF k > Len(path) THEN 0
    ELSE path[k].X * path[NextIdx(path, k)].Y - path[NextIdx(path, k)].X * path[k].Y
         + Area2From(path, k + 1)

Area2(path) == Area2From(path, 1)

\* ClipperLib::Orientation: true when the signed area is not negative
Orientation(path) == Area2(path) >= 0

\* ClipperLib::ReversePath
ReversePath(path) == [k \in 1..Len(path) |-> path[Len(path) + 1 - k]]

\* a double rounded to the nearest integer, halves away from zero
Round(x) ==
    IF x.n >= 0 THEN (2 * x.n + x.d) \div (2 * x.d)
    ELSE -((2 * (-x.n) + x.d) \div (2 * x.d))

\* The point where the segment from P to R meets the line through A and B,
\* rounded to integer coordinates.
MeetPoint(A, B, P, R) ==
    With(Q(Cross(A, B, P), Cross(A, B, P) - Cross(A, B, R)),
         LAMBDA t : IntPoint(Round(Add(I(P.X), Mul(I(R.X - P.X), t))),
                             Round(Add(I(P.Y), Mul(I(R.Y - P.Y), t)))))

RECURSIVE ClipEdgeFrom(_, _, _, _, _)
\* The part of a path to the left of (or on) the line from A to B: the
\* vertices from index k on are visited, out holds the result so far.
ClipEdgeFrom(path, A, B, k, out) ==
    IF k > Len(path) THEN out
    ELSE With(<<path[PrevIdx(path, k)], path[k]>>,
              LAMBDA e :
                  ClipEdgeFrom(path, A, B, k + 1,
                      IF Cross(A, B, e[2]) >= 0
                          THEN IF Cross(A, B, e[1]) < 0
                                   THEN out \o <<MeetPoint(A, B, e[1], e[2]), e[2]>>
                                   ELSE Append(out, e[2])
                      ELSE IF Cross(A, B, e[1]) >= 0
                          THEN Append(out, MeetPoint(A, B, e[1], e[2]))
                      ELSE out))

RECURSIVE ClipConvexFrom(_, _, _)
\* a path cut by the edges of a counter-clockwise convex path from edge k on
ClipConvexFrom(path, clip, k) ==
    IF k > Len(clip) \/ path = <<>> THEN path
    ELSE With(ClipEdgeFrom(path, clip[k], clip[NextIdx(clip, k)], 1, <<>>),
              LAMBDA cut : ClipConvexFrom(cut, clip, k + 1))

RECURSIVE Simplify(_)
\* a path without repeated and without collinear vertices
Simplify(path) ==
    IF Len(path) < 3 THEN path
    ELSE LET drop == {k \in 1..Len(path) :
                         Cross(path[PrevIdx(path, k)], path[k], path[NextIdx(path, k)]) = 0}
         IN  IF drop = {} THEN path
             ELSE With(CHOOSE k \in drop : \A j \in drop : k <= j,
                       LAMBDA k : Simplify(SubSeq(path, 1, k - 1)
                                           \o SubSeq(path, k + 1, Len(path))))

\* Clipper::Execute(ctIntersection, ...) on the paths of subj and one clip
\* path: the intersections that have an area, as simple polygons.
Execute(subj, clip) ==
    LET ccw == IF Area2(clip) < 0 THEN ReversePath(clip) ELSE clip
        cut == [k \in 1..Len(subj) |-> Simplify(ClipConvexFrom(subj[k], ccw, 1))]
    IN  SelectSeq(cut, LAMBDA path : Len(path) >= 3 /\ Area2(path) # 0)

RECURSIVE CleanPolygon(_, _)
\* ClipperLib::CleanPolygon: a vertex within the distance of the one before
\* it is merged into it (distSqrd is the square of the distance); fewer than
\* 3 vertices leave the empty path.
CleanPolygon(path, distSqrd) ==
    IF Len(path) < 3 THEN <<>>
    ELSE LET close == {k \in 1..Len(path) :
                          LET a == path[PrevIdx(path, k)]
                              b == path[k]
                          IN  (b.X - a.X) * (b.X - a.X) + (b.Y - a.Y) * (b.Y - a.Y)
                                  <= distSqrd}
         IN  IF close = {} THEN path
             ELSE With(CHOOSE k \in close : \A j \in close : k <= j,
                       LAMBDA k : CleanPolygon(SubSeq(path, 1, k - 1)
                                               \o SubSeq(path, k + 1, Len(path)),
                                               distSqrd))

\* ClipperLib::CleanPolygons, with its default distance 1.415 (squared: 2)
CleanPolygons(paths) == [k \in 1..Len(paths) |-> CleanPolygon(paths[k], 2)]

----------------------------------------------------------------------------
(* Partition::CreatePowerDiagram (areacon.cpp 743-897).  M holds the       *)
(* members of the Partition and the static Robustness_Constant (rc); l     *)
(* holds the locals of the function.                                       *)

\* long int mult = (int) 1/Alg_Params.Robustness_Constant
Mult_(params) == Trunc(Div(I(1), params.Robustness_Constant))

\* IntPoint((long int)(p.x*mult), (long int)(p.y*mult))
ToIntPoint(p, m) == IntPoint(Trunc(Mul(p.x, I(m))), Trunc(Mul(p.y, I(m))))

\* Point((double) ip.X/(double) mult, (double) ip.Y/(double) mult)
ToPoint(ip, m) == Pt(Div(I(ip.X), I(m)), Div(I(ip.Y), I(m)))

\* The search for the bisector stops counting at BisectCap iterations.
BisectCap == 10000

\* increment is a long double: doubling it beyond 2^MaxIncrementExp
\* overflows to INFINITY.
MaxIncrementExp == 12

Overflowing(x) == IF Gt(fabs(x), I(2 ^ MaxIncrementExp)) THEN Q(Sign(x.n), 0) ELSE x

\* The locals on entry, after the base region is converted for clipping
\* (the doubles the code leaves uninitialised are set before they are read).
\* built_from is history: the Centers and Weights the call reads.
PDEntry(M) ==
    [pc |-> "region", ii |-> 1, jj |-> 0, count |-> 0,
     built_from |-> [Centers |-> M.Centers, Weights |-> M.Weights],
     testvalue |-> I(0), increment |-> I(1), flag2 |-> FALSE,
     previousvalue1 |-> I(0), previousvalue2 |-> I(0), error |-> I(0),
     Test |-> DefaultPoint,
     p1 |-> DefaultPoint, p2 |-> DefaultPoint, p3 |-> DefaultPoint,
     p4 |-> DefaultPoint, p5 |-> DefaultPoint, p6 |-> DefaultPoint,
     subj |-> [k \in 1..M.Prior.Region.NPoly |->
                  ToIntPoint(M.Prior.Region.Vertices[k], Mult_(M.Alg_Params))],
     solution |-> <<>>]

\* the first jj >= from other than ii, 0 when the loop over jj is over
FirstOther(ii, from, N) ==
    IF \E jj \in from..N : jj # ii
        THEN CHOOSE jj \in from..N : jj # ii /\ \A k \in from..N : k # ii => jj <= k
        ELSE 0
\* The same with a search that starts at a quarter of the way to centre jj
NextPair_StartAtQuarter(l, from, N) ==
    IF FirstOther(l.ii, from, N) = 0 THEN [l EXCEPT !.pc = "convert"]
    ELSE [l EXCEPT !.pc = "bisect", !.jj = FirstOther(l.ii, from, N), !.count = 0,
                   !.testvalue = Q(1, 4), !.increment = I(1), !.flag2 = FALSE,
                   !.error = INFINITY]

\* The locals when the loop over jj goes on from index from: the search for
\* the pair (ii, jj) starts, or the loop is over.
NextPair(l, from, N) ==
    IF FirstOther(l.ii, from, N) = 0 THEN [l EXCEPT !.pc = "convert"]
    ELSE [l EXCEPT !.pc = "bisect", !.jj = FirstOther(l.ii, from, N), !.count = 0,
                   !.testvalue = Q(1, 2), !.increment = I(1), !.flag2 = FALSE,
                   !.error = INFINITY]

\* The head of the loop over ii: solution = subj, then the loop over jj.
RegionStep(M, l) ==
    IF l.ii > M.NRegions THEN [l EXCEPT !.pc = "clean"]
    ELSE NextPair([l EXCEPT !.solution = <<l.subj>>], 1, M.NRegions)

\* One pass of the loop "while (count<10000)" of the bisector search;
\* pow(Distance(a, b), 2) is the squared distance.
BisectStep(M, l) ==
    IF l.count >= BisectCap THEN [l EXCEPT !.pc = "size", !.increment = I(1)]
    ELSE
    With(FindPointAlongLine(M.Centers[l.ii], M.Centers[l.jj], l.testvalue),
     LAMBDA Test :
      With(<<Sub(Distance2(M.Centers[l.ii], Test), M.Weights[l.ii]),
             Sub(Distance2(M.Centers[l.jj], Test), M.Weights[l.jj])>>,
       LAMBDA v :
        LET value1 == v[1]
            value2 == v[2]
            error == fabs(Sub(value2, value1))
            found == [l EXCEPT !.Test = Test, !.error = error, !.flag2 = TRUE,
                               !.pc = "size", !.increment = I(1)]
            next == [l EXCEPT !.Test = Test, !.error = error, !.flag2 = TRUE]
            \* error is NaN when a centre or a weight is not finite, whatever
            \* testvalue is: every comparison is false and each remaining pass
            \* halves increment and subtracts it, up to the cap; testvalue and
            \* increment are given their limits.
            capped == [next EXCEPT !.count = BisectCap, !.increment = I(0),
                                   !.testvalue = Sub(l.testvalue, l.increment)]
        IN  IF Lt(error, M.Alg_Params.Robustness_Constant) THEN found
            ELSE IF l.flag2 /\ isnan(error) THEN capped
            ELSE IF ~l.flag2 THEN
                [next EXCEPT !.previousvalue1 = value1, !.previousvalue2 = value2,
                             !.testvalue = IF Gt(value1, value2)
                                               THEN Sub(l.testvalue, l.increment)
                                               ELSE Add(l.testvalue, l.increment)]
            ELSE IF Gt(value2, value1) /\ Gt(l.previousvalue2, l.previousvalue1) THEN
                [next EXCEPT !.testvalue = Add(l.testvalue, l.increment),
                             !.previousvalue1 = value1, !.previousvalue2 = value2,
                             !.count = l.count + 1]
            ELSE IF Gt(value1, value2) /\ Gt(l.previousvalue1, l.previousvalue2) THEN
                [next EXCEPT !.testvalue = Sub(l.testvalue, l.increment),
                             !.previousvalue1 = value1, !.previousvalue2 = value2,
                             !.count = l.count + 1]
            ELSE IF Gt(value2, value1) /\ Gt(l.previousvalue1, l.previousvalue2) THEN
                [next EXCEPT !.increment = Div(l.increment, I(2)),
                             !.testvalue = Add(l.testvalue, Div(l.increment, I(2))),
                             !.count = l.count + 1]
            ELSE
                [next EXCEPT !.increment = Div(l.increment, I(2)),
                             !.testvalue = Sub(l.testvalue, Div(l.increment, I(2))),
                             !.count = l.count + 1]))

\* p1 and p2 of the sizing loop for the offset increment
SizingPoints(M, l, increment) ==
    With(Distance(l.Test, M.Centers[l.ii]),
         LAMBDA dist :
             <<AddPoints(l.Test, FindPerpDirection(l.Test, M.Centers[l.ii],
                                                   Mul(dist, increment))),
               AddPoints(l.Test, FindPerpDirection(l.Test, M.Centers[l.ii],
                                                   Mul(dist, Neg(increment))))>>)

\* the two tests that end the sizing loop, on the region's bounding box
StraddlesX(R, p1, p2) ==
    \/ Lt(p1.x, R.minx) /\ Gt(p2.x, R.maxx)
    \/ Gt(p1.x, R.maxx) /\ Lt(p2.x, R.minx)

StraddlesY(R, p1, p2) ==
    \/ Lt(p1.y, R.miny) /\ Gt(p2.y, R.maxy)
    \/ Gt(p1.y, R.maxy) /\ Lt(p2.y, R.miny)

\* One pass of the loop "while (true)" that sizes the half-plane.
SizeStep(M, l) ==
    With(SizingPoints(M, l, l.increment),
     LAMBDA p :
        LET R == M.Prior.Region
            p1 == p[1]
            p2 == p[2]
            lowy == Sub(fmin(fmin(R.miny, p1.y), p2.y), I(1))
            highy == Add(fmax(fmax(R.maxy, p1.y), p2.y), I(1))
            lowx == Sub(fmin(fmin(R.minx, p1.x), p2.x), I(1))
            highx == Add(fmax(fmax(R.maxx, p1.x), p2.x), I(1))
        IN  IF StraddlesX(R, p1, p2) THEN
                [l EXCEPT !.pc = "clip", !.p1 = p1, !.p2 = p2,
                          !.p3 = Pt(p1.x, lowy), !.p4 = Pt(p2.x, lowy),
                          !.p5 = Pt(p2.x, highy), !.p6 = Pt(p1.x, highy)]
            ELSE IF StraddlesY(R, p1, p2) THEN
                [l EXCEPT !.pc = "clip", !.p1 = p1, !.p2 = p2,
                          !.p3 = Pt(lowx, p1.y), !.p4 = Pt(lowx, p2.y),
                          !.p5 = Pt(highx, p2.y), !.p6 = Pt(highx, p1.y)]
            ELSE [l EXCEPT !.p1 = p1, !.p2 = p2,
                           !.increment =
                               IF l.count > BisectCap
                                   THEN Overflowing(Mul(Overflowing(Mul(l.increment, I(2))),
                                                        I(500)))
                                   ELSE Overflowing(Mul(l.increment, I(2)))])

\* The choice of the half-plane, the clip and the clean-up for the pair
\* (ii, jj); then the loop over jj goes on.
ClipStep(M, l) ==
    LET m == Mult_(M.Alg_Params)
        inside == pnpoly(M.rc, [Vertices |-> <<l.p3, l.p4, l.p2, l.p1>>], M.Centers[l.ii])
        heavier == Gt(Neg(M.Weights[l.ii]),
                      Sub(Distance2(M.Centers[l.ii], M.Centers[l.jj]), M.Weights[l.jj]))
        whichpoly == IF heavier THEN ~inside ELSE inside
        quad == IF whichpoly
                    THEN <<ToIntPoint(l.p3, m), ToIntPoint(l.p4, m),
                           ToIntPoint(l.p2, m), ToIntPoint(l.p1, m)>>
                    ELSE <<ToIntPoint(l.p5, m), ToIntPoint(l.p6, m),
                           ToIntPoint(l.p1, m), ToIntPoint(l.p2, m)>>
        clip == IF ~Orientation(quad) THEN ReversePath(quad) ELSE quad
    IN  With(Execute(l.solution, clip),
             LAMBDA solution :
                 NextPair([l EXCEPT !.solution =
                               IF solution = <<>> THEN solution
                               ELSE [solution EXCEPT ![1] = CleanPolygon(solution[1], 1)]],
                          l.jj + 1, M.NRegions))

\* What "Covering[ii] = Poly(temp)" does for the vertex list temp: the
\* constructor throws, or the polygon is stored and the loop over ii goes on.
StorePoly(l, covering, temp) ==
    IF InitializePolyError(temp) # ""
        THEN [l |-> [l EXCEPT !.pc = "error"], Covering |-> covering,
              err |-> InitializePolyError(temp)]
        ELSE [l |-> [l EXCEPT !.pc = "region", !.ii = l.ii + 1],
              Covering |-> [covering EXCEPT ![l.ii] = MakePoly(temp)], err |-> ""]

\* The conversion of solution[0] into Covering[ii]: the outcomes [l,
\* Covering, err].  When the clip left no polygon, solution[0] is read from
\* an empty vector (undefined behaviour): the read faults, or it yields the
\* storage of a destroyed path, seen as empty or with its old points.
ConvertStep(M, l, covering) ==
    IF l.solution = <<>> THEN
        {[l |-> [l EXCEPT !.pc = "crashed"], Covering |-> covering,
          err |-> "fault: solution[0] of an empty vector"]}
        \cup {StorePoly(l, covering, [k \in 1..Len(stale) |->
                                         ToPoint(stale[k], Mult_(M.Alg_Params))]) :
                  stale \in {<<>>, l.subj}}
    ELSE {StorePoly(l, covering, [k \in 1..Len(l.solution[1]) |->
                                     ToPoint(l.solution[1][k], Mult_(M.Alg_Params))])}

RECURSIVE SnapFrom(_, _, _, _)
\* The loops over kk and pp of CleanCovering from kk on: a vertex of Vert_jj
\* closer than tolerance to Vert_ii[kk] becomes Vert_ii[kk] (the distances
\* are compared by their squares).
SnapFrom(Vert_ii, Vert_jj, tolerance, kk) ==
    IF kk > Len(Vert_ii) THEN Vert_jj
    ELSE With([pp \in 1..Len(Vert_jj) |->
                  IF Lt(Distance2(Vert_ii[kk], Vert_jj[pp]), Mul(tolerance, tolerance))
                      THEN Vert_ii[kk] ELSE Vert_jj[pp]],
              LAMBDA snapped : SnapFrom(Vert_ii, snapped, tolerance, kk + 1))

RECURSIVE SnapPairsFrom(_, _, _, _, _)
\* The first pair of loops of CleanCovering from (ii, jj) on; Vert_ii was
\* read when the pass for ii started, and SetVertices(Vert_jj, false) keeps
\* the extrema of Covering[jj].
SnapPairsFrom(covering, Vert_ii, tolerance, ii, jj) ==
    IF ii > Len(covering) THEN covering
    ELSE IF jj > Len(covering) THEN
        IF ii + 1 > Len(covering) THEN covering
        ELSE SnapPairsFrom(covering, covering[ii + 1].Vertices, tolerance, ii + 1, ii + 1)
    ELSE With([covering EXCEPT ![jj].Vertices =
                   SnapFrom(Vert_ii, covering[jj].Vertices, tolerance, 1)],
              LAMBDA snapped : SnapPairsFrom(snapped, Vert_ii, tolerance, ii, jj + 1))

RECURSIVE SetAllFrom(_, _, _)
\* The last loop of CleanCovering from ii on: Covering[ii].SetVertices(Vert_ii)
\* for the cleaned lists; the first list InitializePoly refuses ends it.
SetAllFrom(covering, lists, ii) ==
    IF ii > Len(covering) THEN [err |-> "", Covering |-> covering]
    ELSE IF InitializePolyError(lists[ii]) # ""
        THEN [err |-> InitializePolyError(lists[ii]),
              Covering |-> [covering EXCEPT ![ii] = PolyAfterThrow(lists[ii])]]
    ELSE SetAllFrom([covering EXCEPT ![ii] = MakePoly(lists[ii])], lists, ii + 1)

\* Partition::CleanCovering(1.0/mult, mult) on the covering: [err, Covering]
CleanCovering(M, covering) ==
    IF covering = <<>> THEN [err |-> "", Covering |-> covering]
    ELSE
    With(SnapPairsFrom(covering, covering[1].Vertices,
                       Div(I(1), I(Mult_(M.Alg_Params))), 1, 1),
     LAMBDA snapped :
        LET m == Mult_(M.Alg_Params)
            c == [ii \in 1..Len(snapped) |->
                     [kk \in 1..Len(snapped[ii].Vertices) |->
                         ToIntPoint(snapped[ii].Vertices[kk], m)]]
        IN  With(CleanPolygons(c),
                 LAMBDA cleaned :
                     SetAllFrom(snapped,
                                [ii \in 1..Len(cleaned) |->
                                    [kk \in 1..Len(cleaned[ii]) |->
                                        ToPoint(cleaned[ii][kk], m)]],
                                1)))

----------------------------------------------------------------------------
(* The steps of the controller (areacon.cpp 936-1076)                      *)

\* DelaunayGraph(NRegions): every entry holds two default Points
NewDelaunayGraph(N) ==
    [ii \in 1..N |-> [jj \in 1..N |-> <<DefaultPoint, DefaultPoint>>]]

RECURSIVE SharedEdgeFrom(_, _, _, _, _, _)
\* The loops over kk and pp of CreateDelaunayGraph for one pair of regions,
\* from (kk, pp) on: the entry Graph[ii][jj] they leave.  Two intersection
\* points end both loops.
SharedEdgeFrom(rc, Vert_ii, Vert_jj, kk, pp, entry) ==
    IF kk > Len(Vert_ii) THEN entry
    ELSE IF pp > Len(Vert_jj) THEN SharedEdgeFrom(rc, Vert_ii, Vert_jj, kk + 1, 1, entry)
    ELSE LET pi1 == Vert_ii[kk]
             pi2 == Vert_ii[NextIdx(Vert_ii, kk)]
             pj1 == Vert_jj[pp]
             pj2 == Vert_jj[NextIdx(Vert_jj, pp)]
         IN  IF AreCollinear(rc, pi1, pi2, pj1) /\ AreCollinear(rc, pi1, pi2, pj2)
             THEN With(FindCollinearIntersection(rc, pi1, pi2, pj1, pj2),
                       LAMBDA temp :
                           IF Len(temp) = 2 THEN <<temp[1], temp[2]>>
                           ELSE SharedEdgeFrom(rc, Vert_ii, Vert_jj, kk, pp + 1,
                                    IF temp = <<>> THEN <<DefaultPoint, DefaultPoint>>
                                    ELSE <<temp[1], DefaultPoint>>))
             ELSE SharedEdgeFrom(rc, Vert_ii, Vert_jj, kk, pp + 1, entry)

\* Partition::CreateDelaunayGraph(Delaunay): the graph it leaves; the entries
\* [ii][jj] and [jj][ii] are written together.
CreateDelaunayGraph(rc, covering, Delaunay) ==
    [ii \in 1..Len(covering) |->
        [jj \in 1..Len(covering) |->
            IF ii = jj THEN Delaunay[ii][jj]
            ELSE LET a == IF ii < jj THEN ii ELSE jj
                     b == IF ii < jj THEN jj ELSE ii
                 IN  SharedEdgeFrom(rc, covering[a].Vertices, covering[b].Vertices, 1, 1,
                                    Delaunay[a][b])]]
\* The same without the term of region ii: not antisymmetric in ii and jj
InvAreaDist_OneSided(M, volumes, ii, jj) ==
    Div(M.desired_area[jj], volumes[jj])

\* The same difference with the two regions exchanged
InvAreaDist_Swapped(M, volumes, ii, jj) ==
    Sub(Div(M.desired_area[ii], volumes[ii]), Div(M.desired_area[jj], volumes[jj]))

\* InvAreaDist[ii][jj] of GradientStepWeights
InvAreaDist(M, volumes, ii, jj) ==
    Sub(Div(M.desired_area[jj], volumes[jj]), Div(M.desired_area[ii], volumes[ii]))

\* integrals[ii][jj] of GradientStepWeights: the line integral along the
\* shared edge of the pair, 0 when the edge has no finite second point
integrals(D, spacing, SharedEdges, ii, jj) ==
    With(IF ii < jj THEN SharedEdges[ii][jj] ELSE SharedEdges[jj][ii],
         LAMBDA edge :
             IF ~isinf(edge[2].x) THEN LineIntegral(D, spacing, edge[1], edge[2])
             ELSE I(0))

\* totals[ii] of GradientStepWeights
totals(M, volumes, SharedEdges, ii) ==
    SumSeq([jj \in 1..M.NRegions |->
               IF jj = ii THEN I(0)
               ELSE With(<<InvAreaDist(M, volumes, ii, jj),
                           Distance(M.Centers[ii], M.Centers[jj]),
                           integrals(M.Prior, M.Alg_Params.line_int_step,
                                     SharedEdges, ii, jj)>>,
                         LAMBDA t : Mul(Mul(t[1], Div(I(1), t[2])), t[3]))])

\* The first row of GradientStepWeights in which LineIntegral throws
\* (NRegions + 1 when none does): LineIntegral is called for the pairs
\* ii < jj whose edge has a finite second point.
FirstThrowingRow(M, SharedEdges) ==
    LET N == M.NRegions
        calls == {ii \in 1..N : \E jj \in (ii + 1)..N : ~isinf(SharedEdges[ii][jj][2].x)}
    IN  IF LineIntegralError(M.Prior, M.Alg_Params.line_int_step) # "" /\ calls # {}
            THEN CHOOSE ii \in calls : \A k \in calls : ii <= k
            ELSE N + 1

\* Partition::GradientStepWeights(volumes, SharedEdges): [err, Weights].
\* When LineIntegral throws, the weights before that row are updated.
GradientStepWeights(M, covering, volumes, SharedEdges) ==
    With(FirstThrowingRow(M, SharedEdges),
         LAMBDA first :
            [err |-> IF first <= M.NRegions
                         THEN LineIntegralError(M.Prior, M.Alg_Params.line_int_step)
                         ELSE "",
             Weights |-> [ii \in 1..M.NRegions |->
                 IF ii >= first THEN M.Weights[ii]
                 ELSE IF covering[ii].NPoly = 0
                     THEN Add(M.Weights[ii], Mul(M.Alg_Params.weights_step, I(2)))
                 ELSE With(totals(M, volumes, SharedEdges, ii),
                           LAMBDA total :
                               Add(M.Weights[ii],
                                   Neg(Mul(total, M.Alg_Params.weights_step))))]])

\* Errorxy of GradientStepCenter for region ii: centroid minus centre
Errorxy(M, covering, volumes, ii) ==
    AddPoints(CalculateCentroid(M.rc, M.Prior, covering[ii], volumes[ii]),
              FlipDirection(M.Centers[ii]))

\* double Partition::GradientStepCenter(volumes): [Centers, Error]
GradientStepCenter(M, covering, volumes) ==
    With([ii \in 1..M.NRegions |-> Errorxy(M, covering, volumes, ii)],
         LAMBDA e :
             [Centers |-> [ii \in 1..M.NRegions |->
                              AddPoints(M.Centers[ii], Mult(e[ii], M.Alg_Params.centers_step))],
              Error |-> SumSeq([ii \in 1..M.NRegions |-> PointNorm(e[ii])])])

\* void Partition::GradientStepCenter(temp_step, volumes) for a temp_step in
\* (0, 1]: the centres it leaves
GradientStepCenterTo(M, covering, temp_step, volumes) ==
    [ii \in 1..M.NRegions |->
        FindPointAlongLine(M.Centers[ii],
                           CalculateCentroid(M.rc, M.Prior, covering[ii], volumes[ii]),
                           temp_step)]

\* Partition::CalculateError(volumes)
CalculateError(M, volumes) ==
    SumSeq([jj \in 1..M.NRegions |->
               Mul(fabs(Sub(volumes[jj], M.desired_area[jj])),
                   fabs(Sub(volumes[jj], M.desired_area[jj])))])

\* Partition::CalculateVolumes() for a Prior with samples
CalculateVolumes(M, covering) ==
    [jj \in 1..M.NRegions |-> CalculateWeightedArea(M.rc, M.Prior, covering[jj])]

\* The locals of CalculatePartition when it calls CreatePowerDiagram for the
\* first time (count1 and count2 are assigned before they are read).
CPEntry(N) ==
    [pc |-> "first", count1 |-> 0, count2 |-> 0,
     volumes |-> [k \in 1..N |-> I(0)],
     error |-> INFINITY, error_vol |-> INFINITY,
     Delaunay |-> NewDelaunayGraph(N)]

----------------------------------------------------------------------------
(* State                                                                   *)

VARIABLES
    pargs,      \* Parameters::Parameters: the nine constructor arguments
    pobj,       \* the constructed Parameters object, NoObject before/without
    perr,       \* the message of the std::runtime_error raised, "" if none
    Robustness_Constant,    \* the static Point::Robustness_Constant
    NRegions,   \* Partition::NRegions
    desired_area,           \* Partition::desired_area
    Prior,      \* Partition::Prior: its Region and Volume_Lower_Bound
    Alg_Params, \* Partition::Alg_Params
    Centers,    \* Partition::Centers
    Weights,    \* Partition::Weights
    Covering,   \* Partition::Covering
    pc,         \* where the caller of the Partition object stands
    err,        \* the message of the error the last Partition call raised, "" if none
    last_call,  \* history: the last Partition member function called
    last_init,  \* history: how the last InitializePartition call ended
    last_args,  \* history: the arguments of the last InitializePartition call
    pd,         \* CreatePowerDiagram: its position and local variables
    cp,         \* CalculatePartition: its position and local variables
    ncalls      \* history: number of member function calls made so far

paramVars == <<pargs, pobj, perr>>

partVars == <<Robustness_Constant, NRegions, desired_area, Prior, Alg_Params,
              Centers, Weights, Covering, pc, err, last_call, last_init,
              last_args, pd, cp, ncalls>>

vars == <<pargs, pobj, perr, Robustness_Constant, NRegions, desired_area, Prior,
          Alg_Params, Centers, Weights, Covering, pc, err, last_call, last_init,
              last_args, pd, cp, ncalls>>

\* The locals of a member function that is not running.
NotRunning == [pc |-> "idle"]

\* An object that may not exist: <<>> or <<the object>>.
NoObject == <<>>
Object(x) == <<x>>

\* The members of the Partition object and the static Robustness_Constant,
\* as the member functions read them.
Members ==
    [NRegions |-> NRegions, Prior |-> Prior, Alg_Params |-> Alg_Params,
     desired_area |-> desired_area, Centers |-> Centers, Weights |-> Weights,
     rc |-> Robustness_Constant]

----------------------------------------------------------------------------
(* Parameters (areacon.cpp 323-344)                                        *)

\* The message CheckParameters throws for the members m, "" when it returns.
CheckParameters_LooseCentersStep(m) ==
    IF Le(m.line_int_step, I(0)) THEN "line_int_step must be greater than 0"
    ELSE IF Le(m.weights_step, I(0)) THEN "weights_step must be greater than 0"
    ELSE IF Le(m.centers_step, I(0))
        THEN "centers_step must be greater than 0 and less than or equal to 1"
    ELSE IF Le(m.volume_tolerance, I(0)) THEN "volume_tolerance must be greater than 0"
    ELSE IF Le(m.convergence_criterion, I(0))
        THEN "convergence_criterion must be greater than 0"
    ELSE IF m.max_iterations_volume <= 0 THEN "max_iterations_volume must be greater than 0"
    ELSE IF m.max_iterations_centers <= 0
        THEN "max_iterations_centers must be greater than 0"
    ELSE IF Le(m.Volume_Lower_Bound, I(0)) \/ Ge(m.Volume_Lower_Bound, I(1))
        THEN "Volume_Lower_Bound must be between 0 and 1"
    ELSE IF Le(m.Robustness_Constant, I(0)) THEN "Robustness_Constant must be greater than 0"
    ELSE ""

CheckParameters(m) ==
    IF Le(m.line_int_step, I(0)) THEN "line_int_step must be greater than 0"
    ELSE IF Le(m.weights_step, I(0)) THEN "weights_step must be greater than 0"
    ELSE IF Le(m.centers_step, I(0)) \/ Gt(m.centers_step, I(1))
        THEN "centers_step must be greater than 0 and less than or equal to 1"
    ELSE IF Le(m.volume_tolerance, I(0)) THEN "volume_tolerance must be greater than 0"
    ELSE IF Le(m.convergence_criterion, I(0))
        THEN "convergence_criterion must be greater than 0"
    ELSE IF m.max_iterations_volume <= 0 THEN "max_iterations_volume must be greater than 0"
    ELSE IF m.max_iterations_centers <= 0
        THEN "max_iterations_centers must be greater than 0"
    ELSE IF Le(m.Volume_Lower_Bound, I(0)) \/ Ge(m.Volume_Lower_Bound, I(1))
        THEN "Volume_Lower_Bound must be between 0 and 1"
    ELSE IF Le(m.Robustness_Constant, I(0)) THEN "Robustness_Constant must be greater than 0"
    ELSE ""

\* Argument values tried for the constructor: around each documented bound.
SignValues == {I(-1), I(0), I(1)}
UnitValues == {I(-1), I(0), Q(1, 2), I(1), I(2)}
CountValues == {-1, 0, 1}

ParameterArgs ==
    [line_int_step : SignValues, weights_step : SignValues, centers_step : UnitValues,
     volume_tolerance : SignValues, convergence_criterion : SignValues,
     max_iterations_volume : CountValues, max_iterations_centers : CountValues,
     Volume_Lower_Bound : UnitValues, Robustness_Constant : SignValues]

\* Parameters(): the default arguments of the constructor (areacon.h 366)
DefaultParameters ==
    [line_int_step |-> Q(1, 10), weights_step |-> Q(1, 10), centers_step |-> I(1),
     volume_tolerance |-> Q(2, 1000), convergence_criterion |-> Q(2, 100),
     max_iterations_volume |-> 200, max_iterations_centers |-> 500,
     Volume_Lower_Bound |-> Q(10, 1000000), Robustness_Constant |-> Q(10, 100000000)]

\* The Partition variables of a process that holds no Partition object.
PartIdle ==
    /\ Robustness_Constant = I(0) /\ NRegions = 0 /\ desired_area = <<>>
    /\ Prior = DefaultDensity /\ Alg_Params = DefaultParameters
    /\ Centers = <<>> /\ Weights = <<>>
    /\ Covering = <<>> /\ pc = "noobject" /\ err = "" /\ last_call = "none"
    /\ last_init = "never" /\ last_args = [cs |-> <<>>, ws |-> <<>>] /\ ncalls = 0
    /\ pd = NotRunning /\ cp = NotRunning

\* The Parameters variables of a process that constructs no Parameters here.
ParamsIdle == pargs = <<>> /\ pobj = NoObject /\ perr = ""

\* Parameters::Parameters(...): the members are initialised from the
\* arguments, then CheckParameters runs; a throw leaves no object.
ParametersCtor ==
    /\ pobj = NoObject /\ perr = ""
    /\ LET msg == CheckParameters(pargs)
       IN  /\ perr' = msg
           /\ pobj' = IF msg = "" THEN Object(pargs) ELSE NoObject
    /\ pargs' = pargs
    /\ UNCHANGED partVars

InitParams ==
    /\ pargs \in ParameterArgs /\ pobj = NoObject /\ perr = ""
    /\ PartIdle

NextParams == ParametersCtor

SpecParams == InitParams /\ [][NextParams]_vars

----------------------------------------------------------------------------
(* C8: constructing Parameters succeeds exactly when every argument is in  *)
(* its documented range: line_int_step > 0, weights_step > 0,              *)
(* 0 < centers_step <= 1, volume_tolerance > 0, convergence_criterion > 0, *)
(* both iteration caps > 0, 0 < Volume_Lower_Bound < 1 and                 *)
(* Robustness_Constant > 0; otherwise it raises an error and no object     *)
(* exists.  (Arguments range over ordered numbers.)                        *)
InRange(a) ==
    /\ Gt(a.line_int_step, I(0)) /\ Gt(a.weights_step, I(0))
    /\ Gt(a.centers_step, I(0)) /\ Le(a.centers_step, I(1))
    /\ Gt(a.volume_tolerance, I(0)) /\ Gt(a.convergence_criterion, I(0))
    /\ a.max_iterations_volume > 0 /\ a.max_iterations_centers > 0
    /\ Gt(a.Volume_Lower_Bound, I(0)) /\ Lt(a.Volume_Lower_Bound, I(1))
    /\ Gt(a.Robustness_Constant, I(0))

----------------------------------------------------------------------------
(* Partition: construction and initialisation (areacon.cpp 645-742)        *)

RECURSIVE FirstAtMost(_, _, _)
\* The first index ii >= k with da[ii] <= bound, 0 when there is none.
FirstAtMost(da, bound, k) ==
    IF k > Len(da) THEN 0
    ELSE IF Le(da[k], bound) THEN k ELSE FirstAtMost(da, bound, k + 1)

RECURSIVE NormalizeFrom(_, _, _, _)
\* The normalisation loop of CheckParams from index k on: each entry is
\* divided by sum in place, and the loop throws at the first quotient that is
\* below the bound, leaving the entries before it divided.
NormalizeFrom(da, sum, bound, k) ==
    IF k > Len(da) THEN [err |-> "", desired_area |-> da]
    ELSE LET da2 == [da EXCEPT ![k] = Div(da[k], sum)]
         IN  IF Lt(da2[k], bound)
                 THEN [err |-> "Normalized areas too small. Decrease the number of regions, increase desired areas, or decrease Alg_Params.Volume_Lower_Bound",
                       desired_area |-> da2]
                 ELSE NormalizeFrom(da2, sum, bound, k + 1)

\* Partition::CheckParams on the members n (NRegions), da (desired_area) and
\* the lower bound vlb of Alg_Params.
CheckParams(n, da, vlb) ==
    IF n # 0 /\ da = <<>> THEN
        IF Le(vlb, Q(1, n))
            THEN [err |-> "", desired_area |-> [k \in 1..n |-> Q(1, n)]]
            ELSE [err |-> "Volume_Lower_Bound is too large for the number of regions. Try making Volume_Lower_Bound smaller or decreasing the number of regions",
                  desired_area |-> da]
    ELSE IF Len(da) # n
        THEN [err |-> "The size of desired_area must equal NRegions", desired_area |-> da]
    ELSE IF FirstAtMost(da, vlb, 1) # 0
        THEN [err |-> "Entries of desired_area must be greater than Alg_Params.Volume_Lower_Bound",
              desired_area |-> da]
    ELSE IF Ne(SumSeq(da), I(1)) THEN NormalizeFrom(da, SumSeq(da), vlb, 1)
    ELSE [err |-> "", desired_area |-> da]

\* InitializePartition's constants (areacon.cpp 717-718).  Lengths of the
\* model are in units of initial_multiplier/1024, so that the offsets
\* 1024, 512, ..., 1 of the eleven attempts are whole numbers.
max_steps == 10
initial_multiplier == 1024

RECURSIVE DefaultCentersFrom(_, _, _, _, _, _, _)
\* The loop of CreateDefaultCenters(Region, multiplier) from index ii on:
\* each point is pushed and then tested; the first one outside ends the
\* attempt with the points pushed so far.
DefaultCentersFrom(rc, Region, n, p1, p2, perp, acc) ==
    IF Len(acc) >= n THEN [ok |-> TRUE, Centers |-> acc]
    ELSE With(AddPoints(FindPointAlongLine(p1, p2, Mul(Q(1, n + 1), I(Len(acc) + 1))),
                        perp),
              LAMBDA c :
                  IF ~pnpoly(rc, Region, c) THEN [ok |-> FALSE, Centers |-> Append(acc, c)]
                  ELSE DefaultCentersFrom(rc, Region, n, p1, p2, perp, Append(acc, c)))

\* bool CreateDefaultCenters(Region, multiplier), for a Region with vertices
CreateDefaultCentersAttempt(rc, Region, n, multiplier) ==
    LET p1 == Region.Vertices[1]
        p2 == Region.Vertices[2]
    IN  With(FindPerpDirection(p1, p2, multiplier),
             LAMBDA perp0 :
                 With(IF ~pnpoly(rc, Region,
                                 AddPoints(FindPointAlongLine(p1, p2, Q(1, 2)), perp0))
                          THEN FlipDirection(perp0) ELSE perp0,
                      LAMBDA perp : DefaultCentersFrom(rc, Region, n, p1, p2, perp, <<>>)))

RECURSIVE CreateDefaultCentersLoop(_, _, _, _, _)
\* void CreateDefaultCenters(Region, initial_multiplier, max_steps) from
\* attempt ii on: [err, Centers, attempts]
CreateDefaultCentersLoop(rc, Region, n, multiplier, ii) ==
    With(CreateDefaultCentersAttempt(rc, Region, n, multiplier),
         LAMBDA r :
             IF r.ok THEN [err |-> "", Centers |-> r.Centers, attempts |-> ii + 1]
             ELSE IF ii = max_steps
                 THEN [err |-> "Unable to Create Default Centers", Centers |-> r.Centers,
                       attempts |-> ii + 1]
             ELSE With(Div(multiplier, I(2)),
                       LAMBDA m : CreateDefaultCentersLoop(rc, Region, n, m, ii + 1)))

\* The centre part of InitializePartition (areacon.cpp 716-729) for the
\* argument cs: [err, Centers].  With no region, the default centres read
\* Vertices[0] of an empty vector (undefined behaviour): the read faults, or
\* yields garbage and the pnpoly that follows throws; Centers was cleared
\* before either.
InitCenters_NoRegionTest(rc, prior, n, old, cs) ==
    IF n # 0 /\ cs = <<>> THEN
        IF prior.Region.NPoly = 0 THEN {[err |-> e, Centers |-> <<>>] :
                e \in {"fault: Vertices[0] of an empty vector",
                       "Polygon vertices have not been initialized"}}
        ELSE LET r == CreateDefaultCentersLoop(rc, prior.Region, n, I(initial_multiplier), 0)
             IN  {[err |-> r.err, Centers |-> r.Centers]}
    ELSE IF Len(cs) # n
        THEN {[err |-> "Centers must be the same size as NRegions!", Centers |-> old]}
    ELSE {[err |-> "", Centers |-> cs]}

InitCenters(rc, prior, n, old, cs) ==
    IF n # 0 /\ cs = <<>> THEN
        IF prior.Region.NPoly = 0 THEN {[err |-> e, Centers |-> <<>>] :
                e \in {"fault: Vertices[0] of an empty vector",
                       "Polygon vertices have not been initialized"}}
        ELSE LET r == CreateDefaultCentersLoop(rc, prior.Region, n, I(initial_multiplier), 0)
             IN  {[err |-> r.err, Centers |-> r.Centers]}
    ELSE IF Len(cs) # n
        THEN {[err |-> "Centers must be the same size as NRegions!", Centers |-> old]}
    ELSE IF cs # <<>> /\ prior.Region.NPoly = 0
        THEN {[err |-> "Polygon vertices have not been initialized", Centers |-> old]}
    ELSE IF \E k \in 1..Len(cs) : ~pnpoly(rc, prior.Region, cs[k])
        THEN {[err |-> "Centers must be located inside the region of interest",
               Centers |-> old]}
    ELSE {[err |-> "", Centers |-> cs]}

\* The weight part of InitializePartition (areacon.cpp 731-740) for the
\* argument ws: [err, Weights].  The default zeros are pushed onto the member.
InitWeights(n, old, ws) ==
    IF n # 0 /\ ws = <<>> THEN [err |-> "", Weights |-> old \o [k \in 1..n |-> I(0)]]
    ELSE IF Len(ws) # n
        THEN [err |-> "Weights must be the same size as NRegions", Weights |-> old]
    ELSE [err |-> "", Weights |-> ws]

\* Calls made on one Partition object are counted up to MaxCalls.
MaxCalls == 2

\* Regions of interest: a square, and a sliver thinner than the smallest
\* default offset where the default centres are placed.
Square == MakePoly(<<Pt(I(0), I(0)), Pt(I(12), I(0)), Pt(I(12), I(12)), Pt(I(0), I(12))>>)
Sliver == MakePoly(<<Pt(I(0), I(0)), Pt(I(2), I(0)), Pt(I(0), I(1))>>)

PriorValues == {DefaultDensity, MakeDensity(Square), MakeDensity(Sliver)}

NRegionsValues == {0, 1, 2}

DesiredAreaValues ==
    {<<>>, <<I(1)>>, <<Q(1, 2), Q(1, 2)>>, <<Q(1, 2), Q(3, 2)>>, <<Q(1, 2), I(3)>>}

\* Parameters objects that differ in Volume_Lower_Bound; lengths are
\* compared with Robustness_Constant 1/4.
PartitionParams(vlb) ==
    [DefaultParameters EXCEPT !.Volume_Lower_Bound = vlb, !.Robustness_Constant = Q(1, 4)]

AlgParamsValues == {PartitionParams(Q(1, 4)), PartitionParams(Q(1, 2))}

CenterArgs ==
    {<<>>, <<Pt(I(6), I(6))>>, <<Pt(I(3), I(3)), Pt(I(9), I(3))>>,
     <<Pt(I(3), I(3)), Pt(I(13), I(3))>>, <<Pt(I(3), I(3)), Pt(I(3), I(3))>>}

WeightArgs == {<<>>, <<I(0)>>, <<I(0), I(1)>>}

\* Partition::Partition(NRegions, Prior, desired_area, Alg_Params): the static
\* Robustness_Constant is set, then CheckParams runs; when it throws, no
\* object exists.
PartitionCtor(n, prior, da, params) ==
    /\ pc = "noobject"
    /\ Robustness_Constant' = params.Robustness_Constant
    /\ LET r == CheckParams(n, da, params.Volume_Lower_Bound)
       IN  IF r.err = ""
           THEN /\ pc' = "idle"
                /\ NRegions' = n
                /\ Prior' = SetVolumeLowerBound(prior, params.Volume_Lower_Bound)
                /\ desired_area' = r.desired_area
                /\ Alg_Params' = params
                /\ err' = ""
                /\ last_call' = "Partition"
           ELSE /\ pc' = "noobject"
                /\ err' = r.err
                /\ last_call' = "Partition"
                /\ UNCHANGED <<NRegions, Prior, desired_area, Alg_Params>>
    /\ ncalls' = 0
    /\ UNCHANGED <<Centers, Weights, Covering, last_init, last_args>>
    /\ UNCHANGED <<pd, cp>>
    /\ UNCHANGED paramVars

\* Partition::SetPartitionVariables: the members are assigned, then
\* CheckParams runs on them.
SetPartitionVariables(n, prior, da) ==
    /\ pc = "idle" /\ ncalls < MaxCalls
    /\ LET r == CheckParams(n, da, Alg_Params.Volume_Lower_Bound)
       IN  /\ NRegions' = n
           /\ Prior' = SetVolumeLowerBound(prior, Alg_Params.Volume_Lower_Bound)
           /\ desired_area' = r.desired_area
           /\ err' = r.err
    /\ last_call' = "SetPartitionVariables"
    /\ ncalls' = ncalls + 1
    /\ UNCHANGED <<Robustness_Constant, Alg_Params, Centers, Weights, Covering, pc,
                   last_init, last_args>>
    /\ UNCHANGED <<pd, cp>>
    /\ UNCHANGED paramVars

\* Partition::InitializePartition(Centers, Weights)
InitializePartition(cs, ws) ==
    /\ pc = "idle" /\ ncalls < MaxCalls
    /\ \E c \in InitCenters(Robustness_Constant, Prior, NRegions, Centers, cs) :
        LET w == InitWeights(NRegions, Weights, ws)
        IN  /\ Centers' = c.Centers
            /\ Weights' = IF c.err = "" THEN w.Weights ELSE Weights
            /\ Covering' = IF c.err = "" /\ w.err = ""
                               THEN [k \in 1..NRegions |-> EmptyPoly] ELSE Covering
            /\ err' = IF c.err # "" THEN c.err ELSE w.err
            /\ last_init' = IF c.err = "" /\ w.err = "" THEN "ok" ELSE "failed"
            /\ last_args' = [cs |-> cs, ws |-> ws]
            /\ pc' = IF c.err = "fault: Vertices[0] of an empty vector"
                         THEN "crashed" ELSE "idle"
    /\ last_call' = "InitializePartition"
    /\ ncalls' = ncalls + 1
    /\ UNCHANGED <<Robustness_Constant, NRegions, desired_area, Prior, Alg_Params>>
    /\ UNCHANGED <<pd, cp>>
    /\ UNCHANGED paramVars

\* Partition::CalculatePartition, its checks on entry (areacon.cpp
\* 1077-1082): it throws, or goes on to the computation.
CalculatePartitionEntry ==
    /\ pc = "idle" /\ ncalls < MaxCalls
    /\ IF Prior.Region.NPoly = 0
           THEN /\ pc' = "idle" /\ err' = "Prior has not been initialized"
                /\ UNCHANGED <<pd, cp>>
       ELSE IF Centers = <<>>
           THEN /\ pc' = "idle" /\ err' = "Centers and Weights have not been initialized"
                /\ UNCHANGED <<pd, cp>>
       ELSE /\ pc' = "CreatePowerDiagram" /\ err' = ""
            /\ pd' = PDEntry(Members)
            /\ cp' = [entry |-> [Centers |-> Centers, Weights |-> Weights,
                                 Covering |-> Covering]] @@ CPEntry(NRegions)
    /\ last_call' = "CalculatePartition"
    /\ ncalls' = ncalls + 1
    /\ UNCHANGED <<Robustness_Constant, NRegions, desired_area, Prior, Alg_Params,
                   Centers, Weights, Covering, last_init, last_args>>
    /\ UNCHANGED paramVars

InitPartition == ParamsIdle /\ PartIdle

NextPartition ==
    \/ \E n \in NRegionsValues, prior \in PriorValues, da \in DesiredAreaValues,
          params \in AlgParamsValues : PartitionCtor(n, prior, da, params)
    \/ \E n \in NRegionsValues, prior \in PriorValues, da \in DesiredAreaValues :
          SetPartitionVariables(n, prior, da)
    \/ \E cs \in CenterArgs, ws \in WeightArgs : InitializePartition(cs, ws)
    \/ CalculatePartitionEntry

SpecPartition == InitPartition /\ [][NextPartition]_vars

----------------------------------------------------------------------------
(* Properties of the Partition life cycle                                  *)

\* C4: CalculatePartition starts the computation only from the initialized
\* state: the last InitializePartition call succeeded and left NRegions
\* centres and NRegions weights.  In every other state it raises an error
\* (and the call that raises changes nothing).
C4_ComputationOnlyWhenInitialized ==
    (last_call = "CalculatePartition" /\ err = "")
        => /\ last_init = "ok"
           /\ Len(Centers) = NRegions
           /\ Len(Weights) = NRegions

\* C5: after a successful construction or SetPartitionVariables call with
\* NRegions >= 1, desired_area has NRegions entries that sum to 1 and are
\* each strictly greater than Volume_Lower_Bound.
C5_DesiredAreaAboveLowerBound ==
    (/\ pc = "idle"
     /\ last_call \in {"Partition", "SetPartitionVariables"}
     /\ err = ""
     /\ NRegions >= 1)
        => /\ Len(desired_area) = NRegions
           /\ Eq(SumSeq(desired_area), I(1))
           /\ \A k \in 1..Len(desired_area) :
                  Gt(desired_area[k], Alg_Params.Volume_Lower_Bound)

\* C6: after a successful InitializePartition call (a repeated one included)
\* Centers, Weights and Covering each hold NRegions entries, and weights
\* taken by default are all 0.
C6_InitializedSizes ==
    (last_call = "InitializePartition" /\ err = "")
        => /\ Len(Centers) = NRegions
           /\ Len(Weights) = NRegions
           /\ Len(Covering) = NRegions
           /\ (NRegions # 0 /\ last_args.ws = <<>>)
                  => \A k \in 1..Len(Weights) : Eq(Weights[k], I(0))

\* Some attempt of the max_steps + 1, with the offset halved from one to the
\* next, puts all n default centres inside the region.
SomeAttemptInside(rc, Region, n) ==
    \E ii \in 0..max_steps :
        CreateDefaultCentersAttempt(rc, Region, n, Q(initial_multiplier, 2 ^ ii)).ok

\* C7: after a successful InitializePartition every centre is inside the
\* prior's region (pnpoly is true for it); a supplied list of the wrong
\* length or with a point outside makes the call fail; with default centres
\* the call succeeds exactly when some attempt of the bounded retries has
\* all its points inside, and fails with an error otherwise.
C7_CentersInsideRegion ==
    last_call = "InitializePartition" =>
        /\ err = "" =>
               \A k \in 1..Len(Centers) :
                   pnpoly(Robustness_Constant, Prior.Region, Centers[k])
        /\ (/\ last_args.cs # <<>>
            /\ \/ Len(last_args.cs) # NRegions
               \/ Prior.Region.NPoly = 0
               \/ \E k \in 1..Len(last_args.cs) :
                      ~pnpoly(Robustness_Constant, Prior.Region, last_args.cs[k]))
               => err # ""
        /\ (NRegions # 0 /\ last_args.cs = <<>> /\ Prior.Region.NPoly # 0)
               => IF SomeAttemptInside(Robustness_Constant, Prior.Region, NRegions)
                      THEN err # "Unable to Create Default Centers"
                      ELSE err = "Unable to Create Default Centers"

\* Default centres are accepted from a later attempt, after the first
\* offset put a point outside the region.
C7_Witness_DefaultsAfterHalving ==
    /\ last_call = "InitializePartition" /\ err = ""
    /\ NRegions = 2 /\ last_args.cs = <<>>
    /\ ~CreateDefaultCentersAttempt(Robustness_Constant, Prior.Region, NRegions,
                                    I(initial_multiplier)).ok

----------------------------------------------------------------------------
(* The actions of CreatePowerDiagram                                       *)

\* The variables CreatePowerDiagram leaves alone
pdFrame == <<pargs, pobj, perr, Robustness_Constant, NRegions, desired_area, Prior,
             Alg_Params, Centers, Weights, last_call, last_init, last_args, ncalls>>

PDRegion ==
    /\ pc = "CreatePowerDiagram" /\ pd.pc = "region"
    /\ pd' = RegionStep(Members, pd)
    /\ UNCHANGED <<pdFrame, Covering, pc, err, cp>>

PDBisect ==
    /\ pc = "CreatePowerDiagram" /\ pd.pc = "bisect"
    /\ pd' = BisectStep(Members, pd)
    /\ UNCHANGED <<pdFrame, Covering, pc, err, cp>>

PDSize ==
    /\ pc = "CreatePowerDiagram" /\ pd.pc = "size"
    /\ pd' = SizeStep(Members, pd)
    /\ UNCHANGED <<pdFrame, Covering, pc, err, cp>>

PDClip ==
    /\ pc = "CreatePowerDiagram" /\ pd.pc = "clip"
    /\ pd' = ClipStep(Members, pd)
    /\ UNCHANGED <<pdFrame, Covering, pc, err, cp>>

\* The locals of CalculatePartition when an exception passes through it
Thrown(l) == IF l.pc = "idle" THEN l ELSE [l EXCEPT !.pc = "thrown"]

\* A throw leaves CreatePowerDiagram and its caller; a fault ends the process.
PDConvert ==
    /\ pc = "CreatePowerDiagram" /\ pd.pc = "convert"
    /\ \E o \in ConvertStep(Members, pd, Covering) :
           /\ pd' = o.l
           /\ Covering' = o.Covering
           /\ err' = o.err
           /\ pc' = IF o.l.pc = "crashed" THEN "crashed"
                    ELSE IF o.l.pc = "error" THEN "idle" ELSE pc
           /\ cp' = IF o.l.pc \in {"crashed", "error"} THEN Thrown(cp) ELSE cp
    /\ UNCHANGED pdFrame

\* CleanCovering ends CreatePowerDiagram: it returns to CalculatePartition
\* when that is its caller, or the exception of SetVertices leaves both.
PDClean ==
    /\ pc = "CreatePowerDiagram" /\ pd.pc = "clean"
    /\ LET r == CleanCovering(Members, Covering)
       IN  /\ Covering' = r.Covering
           /\ err' = r.err
           /\ pd' = [pd EXCEPT !.pc = IF r.err = "" THEN "done" ELSE "error"]
           /\ pc' = IF r.err = "" /\ cp.pc # "idle" THEN "CalculatePartition" ELSE "idle"
           /\ cp' = IF r.err = "" THEN cp ELSE Thrown(cp)
    /\ UNCHANGED pdFrame

\* The Parameters of the power diagram runs: lengths are compared with
\* Robustness_Constant 1/16, so mult is 16.
PDParams == [DefaultParameters EXCEPT !.Robustness_Constant = Q(1, 16)]

\* Centres inside the square and weights for them.
PDConfigs ==
    {[Centers |-> <<Pt(I(6), I(6))>>, Weights |-> <<I(0)>>],
     [Centers |-> <<Pt(I(3), I(6)), Pt(I(9), I(6))>>, Weights |-> <<I(0), I(0)>>],
     [Centers |-> <<Pt(I(6), I(3)), Pt(I(6), I(9))>>, Weights |-> <<I(0), I(0)>>],
     [Centers |-> <<Pt(I(3), I(3)), Pt(I(9), I(9))>>, Weights |-> <<I(0), I(0)>>],
     [Centers |-> <<Pt(I(3), I(6)), Pt(I(9), I(6))>>, Weights |-> <<I(0), I(12)>>],
     [Centers |-> <<Pt(I(3), I(6)), Pt(I(9), I(6))>>, Weights |-> <<I(-5), I(0)>>],
     [Centers |-> <<Pt(I(3), I(6)), Pt(I(9), I(6))>>, Weights |-> <<I(0), I(36)>>],
     [Centers |-> <<Pt(I(3), I(6)), Pt(I(9), I(6))>>, Weights |-> <<I(0), I(108)>>],
     [Centers |-> <<Pt(I(3), I(6)), Pt(I(3), I(6))>>, Weights |-> <<I(0), I(0)>>],
     [Centers |-> <<Pt(I(3), I(3)), Pt(I(9), I(3)), Pt(I(6), I(9))>>,
      Weights |-> <<I(0), I(0), I(0)>>]}

\* An initialized Partition on the square whose CalculatePartition has just
\* called CreatePowerDiagram.
InitPD ==
    /\ ParamsIdle
    /\ \E cfg \in PDConfigs :
           /\ NRegions = Len(cfg.Centers)
           /\ Centers = cfg.Centers
           /\ Weights = cfg.Weights
           /\ desired_area = [k \in 1..Len(cfg.Centers) |-> Q(1, Len(cfg.Centers))]
           /\ Covering = [k \in 1..Len(cfg.Centers) |-> EmptyPoly]
           /\ last_args = [cs |-> cfg.Centers, ws |-> cfg.Weights]
    /\ Robustness_Constant = PDParams.Robustness_Constant
    /\ Prior = SetVolumeLowerBound(MakeDensity(Square), PDParams.Volume_Lower_Bound)
    /\ Alg_Params = PDParams
    /\ pc = "CreatePowerDiagram" /\ err = ""
    /\ last_call = "CalculatePartition" /\ last_init = "ok" /\ ncalls = 2
    /\ pd = PDEntry(Members)
    /\ cp = NotRunning

NextPD == PDRegion \/ PDBisect \/ PDSize \/ PDClip \/ PDConvert \/ PDClean

SpecPD == InitPD /\ [][NextPD]_vars

----------------------------------------------------------------------------
(* Properties of CreatePowerDiagram, checked under SpecPD.                 *)

\* the sizing loop of the pair (ii, jj) exits at the offset increment
SizingExits(M, l, increment) ==
    With(SizingPoints(M, l, increment),
         LAMBDA p : \/ StraddlesX(M.Prior.Region, p[1], p[2])
                    \/ StraddlesY(M.Prior.Region, p[1], p[2]))

\* C3: CalculatePartition terminates for every initialized Partition: the
\* bisector search stays within its cap of iterations, and whenever the
\* half-plane sizing loop runs, some offset of its doubling sequence (the
\* current one, one of its doubles, or the overflowed INFINITY) makes the
\* quadrilateral straddle the bounding box, so that the loop exits.
C3_LoopsOfPowerDiagramExit ==
    /\ (pc = "CreatePowerDiagram" /\ pd.pc = "bisect") => pd.count <= BisectCap
    /\ (pc = "CreatePowerDiagram" /\ pd.pc = "size")
           => \E k \in 0..(MaxIncrementExp + 1) :
                  SizingExits(Members, pd, Overflowing(Mul(pd.increment, I(2 ^ k))))

\* C9: CreatePowerDiagram never raises an error: it neither throws nor
\* faults, whatever the centres and weights, and a cell that vanishes leaves
\* a (possibly empty) polygon in Covering.
C9_PowerDiagramRaisesNoError ==
    /\ pd.pc \notin {"error", "crashed"}
    /\ pc # "crashed"
    /\ (pd.pc \in {"region", "clean", "done"}) => err = ""

----------------------------------------------------------------------------
(* Partition::CalculatePartition after its checks on entry (areacon.cpp    *)
(* 1105-1178; nothing is written to files).  Each call of                  *)
(* CreatePowerDiagram runs the actions above and returns to the position   *)
(* kept in cp.pc.                                                          *)

\* The variables the controller leaves alone
cpFrame == <<pargs, pobj, perr, Robustness_Constant, NRegions, desired_area, Prior,
             Alg_Params, last_call, last_init, last_args, ncalls>>

\* The first volumes and the initial centre step with initial_step = 1, then
\* the second CreatePowerDiagram; count2 = 0 follows it.  CalculateVolumes
\* throws for a Prior without samples.
CPInitialStep ==
    /\ pc = "CalculatePartition" /\ cp.pc = "first"
    /\ IF Prior.Values = <<>>
           THEN /\ pc' = "idle" /\ err' = "Values have not been set!"
                /\ cp' = Thrown(cp)
                /\ UNCHANGED <<Centers, pd>>
           ELSE /\ \E volumes \in {CalculateVolumes(Members, Covering)} :
                       /\ Centers' = GradientStepCenterTo(Members, Covering, I(1), volumes)
                       /\ cp' = [cp EXCEPT !.pc = "outer", !.volumes = volumes,
                                           !.count2 = 0]
                /\ pd' = PDEntry([Members EXCEPT !.Centers = Centers'])
                /\ pc' = "CreatePowerDiagram"
                /\ err' = err
    /\ UNCHANGED <<cpFrame, Weights, Covering>>

\* The same test with a cap that allows one more iteration
OuterContinues_LateCap(l, params) ==
    Gt(l.error, params.convergence_criterion) /\ l.count2 <= params.max_iterations_centers

\* The same test with a cap that ends the loop one iteration early
OuterContinues_EarlyCap(l, params) ==
    Gt(l.error, params.convergence_criterion)
        /\ l.count2 + 1 < params.max_iterations_centers

\* while (error>convergence_criterion && count2<max_iterations_centers)
OuterContinues(l, params) ==
    Gt(l.error, params.convergence_criterion) /\ l.count2 < params.max_iterations_centers

\* The same test without the tolerance: the inner loop always runs to its cap
InnerContinues_NoToleranceTest(l, params) ==
    l.count1 < params.max_iterations_volume

\* while (error_vol>volume_tolerance && count1<max_iterations_volume)
InnerContinues(l, params) ==
    Gt(l.error_vol, params.volume_tolerance) /\ l.count1 < params.max_iterations_volume

\* The head of the outer loop's body: volumes, error_vol, count1 = 0
CPOuterBody ==
    /\ pc = "CalculatePartition" /\ cp.pc = "outer"
    /\ OuterContinues(cp, Alg_Params)
    /\ \E volumes \in {CalculateVolumes(Members, Covering)} :
           cp' = [cp EXCEPT !.pc = "inner", !.volumes = volumes,
                            !.error_vol = CalculateError(Members, volumes),
                            !.count1 = 0]
    /\ UNCHANGED <<cpFrame, Centers, Weights, Covering, pc, err, pd>>

\* The outer loop is over: CalculatePartition returns.
CPReturn ==
    /\ pc = "CalculatePartition" /\ cp.pc = "outer"
    /\ ~OuterContinues(cp, Alg_Params)
    /\ cp' = [cp EXCEPT !.pc = "returned"]
    /\ pc' = "idle"
    /\ UNCHANGED <<cpFrame, Centers, Weights, Covering, err, pd>>

\* The body of the inner loop up to its CreatePowerDiagram
CPInnerBody ==
    /\ pc = "CalculatePartition" /\ cp.pc = "inner"
    /\ InnerContinues(cp, Alg_Params)
    /\ \E Delaunay \in {CreateDelaunayGraph(Robustness_Constant, Covering, cp.Delaunay)} :
       \E r \in {GradientStepWeights(Members, Covering, cp.volumes, Delaunay)} :
           /\ Weights' = r.Weights
           /\ err' = r.err
           /\ IF r.err # ""
                  THEN /\ pc' = "idle"
                       /\ cp' = [cp EXCEPT !.pc = "thrown", !.Delaunay = Delaunay]
                       /\ pd' = pd
                  ELSE /\ pc' = "CreatePowerDiagram"
                       /\ cp' = [cp EXCEPT !.pc = "inner_pd", !.Delaunay = Delaunay]
                       /\ pd' = PDEntry([Members EXCEPT !.Weights = Weights'])
    /\ UNCHANGED <<cpFrame, Centers, Covering>>
\* The same step with the volumes of the Covering before the weight step
CPInnerTail_StaleVolumes ==
    /\ pc = "CalculatePartition" /\ cp.pc = "inner_pd"
    /\ cp' = [cp EXCEPT !.pc = "inner", !.count1 = cp.count1 + 1]
    /\ UNCHANGED <<cpFrame, Centers, Weights, Covering, pc, err, pd>>

\* The rest of the body of the inner loop: volumes, error_vol, count1++
CPInnerTail ==
    /\ pc = "CalculatePartition" /\ cp.pc = "inner_pd"
    /\ \E volumes \in {CalculateVolumes(Members, Covering)} :
           cp' = [cp EXCEPT !.pc = "inner", !.volumes = volumes,
                            !.error_vol = CalculateError(Members, volumes),
                            !.count1 = cp.count1 + 1]
    /\ UNCHANGED <<cpFrame, Centers, Weights, Covering, pc, err, pd>>

\* The inner loop is over: error = GradientStepCenter(volumes), then
\* CreatePowerDiagram
CPCenterStep ==
    /\ pc = "CalculatePartition" /\ cp.pc = "inner"
    /\ ~InnerContinues(cp, Alg_Params)
    /\ \E r \in {GradientStepCenter(Members, Covering, cp.volumes)} :
           /\ Centers' = r.Centers
           /\ cp' = [cp EXCEPT !.pc = "outer_pd", !.error = r.Error]
    /\ pd' = PDEntry([Members EXCEPT !.Centers = Centers'])
    /\ pc' = "CreatePowerDiagram"
    /\ UNCHANGED <<cpFrame, Weights, Covering, err>>

\* The end of the outer loop's body: count2++
CPOuterTail ==
    /\ pc = "CalculatePartition" /\ cp.pc = "outer_pd"
    /\ cp' = [cp EXCEPT !.pc = "outer", !.count2 = cp.count2 + 1]
    /\ UNCHANGED <<cpFrame, Centers, Weights, Covering, pc, err, pd>>

\* A uniform density on the square, sampled on a grid of 5 x 5 points, built
\* while the static Robustness_Constant is 1/16.
UniformPrior == Density(Q(1, 16), Square, 5, 5, [k \in 1..25 |-> I(1)])

\* A uniform density on the square sampled on 7 x 2 points: six cells, each
\* a strip of width 2
StripPrior == Density(Q(1, 16), Square, 7, 2, [k \in 1..14 |-> I(1)])

\* The Parameters of the controller runs
CPParams(line_int_step, convergence_criterion, max_iterations_volume,
         max_iterations_centers) ==
    [line_int_step |-> line_int_step, weights_step |-> I(12),
     centers_step |-> I(1), volume_tolerance |-> Q(1, 100),
     convergence_criterion |-> convergence_criterion,
     max_iterations_volume |-> max_iterations_volume,
     max_iterations_centers |-> max_iterations_centers,
     Volume_Lower_Bound |-> Q(1, 64), Robustness_Constant |-> Q(1, 16)]

\* Initialized Partitions: two regions side by side with equal or unequal
\* desired areas under each pair of caps and a strict or a loose convergence
\* criterion; one region; a line_int_step above 1; a Prior without samples.
CPConfigs ==
    {[Centers |-> <<Pt(I(3), I(6)), Pt(I(9), I(6))>>, Weights |-> <<I(0), I(0)>>,
      desired_area |-> da, Prior |-> UniformPrior, Alg_Params |-> params] :
         da \in {<<Q(1, 2), Q(1, 2)>>, <<Q(1, 4), Q(3, 4)>>},
         params \in {CPParams(Q(1, 2), crit, mv, mc) :
                         crit \in {Q(1, 100), I(2)}, mv \in {1, 2}, mc \in {1, 2}}}
    \cup
    {[Centers |-> <<Pt(I(6), I(6))>>, Weights |-> <<I(0)>>,
      desired_area |-> <<I(1)>>, Prior |-> UniformPrior,
      Alg_Params |-> CPParams(Q(1, 2), Q(1, 100), 1, 2)],
     [Centers |-> <<Pt(I(3), I(6)), Pt(I(9), I(6))>>, Weights |-> <<I(0), I(0)>>,
      desired_area |-> <<Q(1, 4), Q(3, 4)>>, Prior |-> UniformPrior,
      Alg_Params |-> CPParams(I(2), Q(1, 100), 1, 1)],
     [Centers |-> <<Pt(I(3), I(6)), Pt(I(9), I(6))>>, Weights |-> <<I(0), I(0)>>,
      desired_area |-> <<Q(1, 2), Q(1, 2)>>, Prior |-> MakeDensity(Square),
      Alg_Params |-> CPParams(Q(1, 2), Q(1, 100), 1, 1)]}

\* A Partition object after a successful InitializePartition, with one call
\* left.
InitCP ==
    /\ ParamsIdle
    /\ \E cfg \in CPConfigs :
           /\ NRegions = Len(cfg.Centers)
           /\ Centers = cfg.Centers
           /\ Weights = cfg.Weights
           /\ desired_area = cfg.desired_area
           /\ Covering = [k \in 1..Len(cfg.Centers) |-> EmptyPoly]
           /\ last_args = [cs |-> cfg.Centers, ws |-> cfg.Weights]
           /\ Alg_Params = cfg.Alg_Params
           /\ Robustness_Constant = cfg.Alg_Params.Robustness_Constant
           /\ Prior = SetVolumeLowerBound(cfg.Prior, cfg.Alg_Params.Volume_Lower_Bound)
    /\ pc = "idle" /\ err = ""
    /\ last_call = "InitializePartition" /\ last_init = "ok" /\ ncalls = MaxCalls - 1
    /\ pd = NotRunning /\ cp = NotRunning

NextCP ==
    \/ CalculatePartitionEntry
    \/ PDRegion \/ PDBisect \/ PDSize \/ PDClip \/ PDConvert \/ PDClean
    \/ CPInitialStep \/ CPOuterBody \/ CPReturn
    \/ CPInnerBody \/ CPInnerTail \/ CPCenterStep \/ CPOuterTail

SpecCP == InitCP /\ [][NextCP]_vars

----------------------------------------------------------------------------
(* Properties of the controller, checked under SpecCP.                     *)

\* The positions of CalculatePartition inside and after its loops
InLoops == cp.pc \in {"outer", "inner", "inner_pd", "outer_pd", "returned"}

\* C1: the outer loop runs at most max_iterations_centers iterations and,
\* inside each, the inner loop at most max_iterations_volume iterations; the
\* inner body runs only while the squared volume error exceeds
\* volume_tolerance; the outer loop exits when the displacement metric is
\* not above convergence_criterion or the centre cap is reached; and a cap
\* that is reached ends its loop without an error being raised.
C1_LoopsEndAtCaps ==
    /\ [](InLoops => /\ cp.count2 <= Alg_Params.max_iterations_centers
                     /\ cp.count1 <= Alg_Params.max_iterations_volume)
    /\ [][/\ (cp.pc = "outer" /\ cp'.pc = "inner")
                 => /\ cp.count2 < Alg_Params.max_iterations_centers
                    /\ Gt(cp.error, Alg_Params.convergence_criterion)
          /\ (cp.pc = "inner" /\ cp'.pc \in {"inner_pd", "thrown"})
                 => /\ cp.count1 < Alg_Params.max_iterations_volume
                    /\ Gt(cp.error_vol, Alg_Params.volume_tolerance)
          /\ (cp.pc = "outer" /\ cp' # cp
                  /\ (\/ Lt(cp.error, Alg_Params.convergence_criterion)
                      \/ cp.count2 >= Alg_Params.max_iterations_centers))
                 => cp'.pc = "returned" /\ pc' = "idle" /\ err' = ""
          /\ (cp.pc = "outer" /\ cp'.pc = "returned")
                 => \/ ~Gt(cp.error, Alg_Params.convergence_criterion)
                    \/ cp.count2 = Alg_Params.max_iterations_centers
          /\ (cp.pc = "inner" /\ cp' # cp
                  /\ cp.count1 >= Alg_Params.max_iterations_volume)
                 => cp'.pc = "outer_pd" /\ err' = ""
         ]_vars

\* Both caps were reached with both errors still above their thresholds, and
\* CalculatePartition returned without an error.
C1_Witness_BothCapsReached ==
    /\ pc = "idle" /\ cp.pc = "returned" /\ err = ""
    /\ cp.count2 = Alg_Params.max_iterations_centers
    /\ Gt(cp.error, Alg_Params.convergence_criterion)
    /\ cp.count1 = Alg_Params.max_iterations_volume
    /\ Gt(cp.error_vol, Alg_Params.volume_tolerance)

\* CalculatePartition has returned before the centre cap was reached.
ReturnedBeforeCap ==
    /\ pc = "idle" /\ cp.pc = "returned"
    /\ cp.count2 < Alg_Params.max_iterations_centers

\* The squared error between the weighted areas of Covering and desired_area
VolumeErrorOfCovering == CalculateError(Members, CalculateVolumes(Members, Covering))

\* C2 as stated: whenever CalculatePartition returns because the displacement
\* metric met convergence_criterion (and not because the centre cap was
\* reached), the squared error between the weighted areas of the returned
\* Covering and the desired areas is at most volume_tolerance, and the last
\* displacement metric is at most convergence_criterion.
C2_BothCriteriaOnConvergence ==
    (ReturnedBeforeCap /\ Le(cp.error, Alg_Params.convergence_criterion))
        => /\ Le(VolumeErrorOfCovering, Alg_Params.volume_tolerance)
           /\ Le(cp.error, Alg_Params.convergence_criterion)

\* C2 amended: whenever CalculatePartition returns before the centre cap is
\* reached, the last displacement metric is not above convergence_criterion,
\* and the volume error last computed (for the Covering before the last
\* centre step) is not above volume_tolerance unless the inner loop ended at
\* its cap max_iterations_volume.
C2_ConvergenceUpToInnerCap ==
    ReturnedBeforeCap
        => /\ ~Gt(cp.error, Alg_Params.convergence_criterion)
           /\ cp.error_vol = CalculateError(Members, cp.volumes)
           /\ \/ ~Gt(cp.error_vol, Alg_Params.volume_tolerance)
              \/ cp.count1 = Alg_Params.max_iterations_volume

\* A return by convergence whose Covering misses the volume tolerance
C2_Witness_ConvergedOffTolerance ==
    /\ ReturnedBeforeCap
    /\ Le(cp.error, Alg_Params.convergence_criterion)
    /\ Gt(VolumeErrorOfCovering, Alg_Params.volume_tolerance)

----------------------------------------------------------------------------
(* GradientStepCenter(volumes) on its own: a Partition whose Covering is   *)
(* given, the volumes computed from it as CalculatePartition does.         *)

\* The rectangle [x0, x1] x [y0, y1]
Rect(x0, y0, x1, y1) ==
    MakePoly(<<Pt(I(x0), I(y0)), Pt(I(x1), I(y0)), Pt(I(x1), I(y1)), Pt(I(x0), I(y1))>>)

\* Coverings of the square by two cells, one of them with an empty cell
GSCCoverings ==
    {<<Rect(0, 0, 6, 12), Rect(6, 0, 12, 12)>>,
     <<Rect(0, 0, 3, 12), Rect(3, 0, 12, 12)>>,
     <<Rect(0, 0, 9, 12), Rect(9, 0, 12, 12)>>,
     <<Rect(0, 0, 12, 6), Rect(0, 6, 12, 12)>>,
     <<EmptyPoly, Square>>}

\* Centres at, beside, above and diagonally off the centroids
GSCCenters ==
    {<<Pt(I(3), I(6)), Pt(I(9), I(6))>>,
     <<Pt(I(1), I(6)), Pt(I(11), I(6))>>,
     <<Pt(I(6), I(2)), Pt(I(6), I(10))>>,
     <<Pt(I(0), I(2)), Pt(I(12), I(10))>>}

GSCSteps == {I(1), Q(1, 2), Q(1, 4)}

GradientStepCenterCall ==
    /\ pc = "GradientStepCenter" /\ cp.pc = "call"
    /\ \E r \in {GradientStepCenter(Members, Covering, cp.volumes)} :
           /\ Centers' = r.Centers
           /\ cp' = [cp EXCEPT !.pc = "returned", !.error = r.Error]
    /\ pc' = "idle"
    /\ UNCHANGED <<cpFrame, Weights, Covering, err, pd>>

\* cp holds the argument volumes, the centres on entry (old) and the value
\* returned (error).
InitGSC ==
    /\ ParamsIdle
    /\ NRegions = 2 /\ desired_area = <<Q(1, 2), Q(1, 2)>>
    /\ Weights = <<I(0), I(0)>>
    /\ Robustness_Constant = Q(1, 16)
    /\ Prior = SetVolumeLowerBound(UniformPrior, Q(1, 64))
    /\ Covering \in GSCCoverings
    /\ Centers \in GSCCenters
    /\ \E step \in GSCSteps :
           Alg_Params = [CPParams(Q(1, 2), Q(1, 100), 1, 1) EXCEPT !.centers_step = step]
    /\ pc = "GradientStepCenter" /\ err = ""
    /\ last_call = "InitializePartition" /\ last_init = "ok" /\ ncalls = 0
    /\ last_args = [cs |-> Centers, ws |-> Weights]
    /\ pd = NotRunning
    /\ cp = [pc |-> "call", old |-> Centers, error |-> I(0),
             volumes |-> CalculateVolumes(Members, Covering)]

NextGSC == GradientStepCenterCall

SpecGSC == InitGSC /\ [][NextGSC]_vars

\* The centroid CalculateCentroid gives for region ii with the volumes passed
CentroidOf(ii) ==
    CalculateCentroid(Robustness_Constant, Prior, Covering[ii], cp.volumes[ii])

\* C10: GradientStepCenter(volumes) moves every centre to
\* old + centers_step * (centroid - old), and the value it returns is the sum
\* over the regions of the squared Euclidean distance the centre moved.
C10_CenterStepReturnsSquaredMoves ==
    (pc = "idle" /\ cp.pc = "returned" /\ "old" \in DOMAIN cp)
        => /\ \A ii \in 1..NRegions :
                  Centers[ii] = AddPoints(cp.old[ii],
                                    Mult(AddPoints(CentroidOf(ii),
                                                   FlipDirection(cp.old[ii])),
                                         Alg_Params.centers_step))
           /\ Eq(cp.error,
                 SumSeq([ii \in 1..NRegions |-> Distance2(Centers[ii], cp.old[ii])]))

----------------------------------------------------------------------------
(* The Density queries on their own: a Density object built from samples,  *)
(* the static Point::Robustness_Constant, and calls of                     *)
(* CalculateWeightedArea, CalculateCentroid and LineIntegral.  cp holds    *)
(* the one call made: its name (op), its arguments and the value returned.  *)

\* The same samples on the same region, built before any Partition exists:
\* the static Robustness_Constant still has its zero initial value.
EarlyPrior == Density(I(0), Square, 5, 5, [k \in 1..25 |-> I(1)])

\* A density that grows with x: 4 x 4 samples, Values[ii*Ny+jj] = ii + 1
RampPrior == Density(Q(1, 16), Square, 4, 4, [k \in 1..16 |-> I(((k - 1) \div 4) + 1)])

\* The objects queried, each with the Robustness_Constant it was built under
DensityCases ==
    {[Prior |-> SetVolumeLowerBound(D[1], vlb), rc |-> D[2]] :
        D \in {<<UniformPrior, Q(1, 16)>>, <<EarlyPrior, I(0)>>, <<RampPrior, Q(1, 16)>>},
        vlb \in {Q(1, 64), Q(1, 8)}}

\* Test polygons: none, the base region, halves, one cell, less than a cell
TestPolys ==
    {EmptyPoly, Square, Rect(0, 0, 6, 12), Rect(0, 6, 12, 12), Rect(0, 0, 3, 3),
     Rect(0, 0, 4, 4),
     MakePoly(<<Pt(I(1), I(1)), Pt(I(2), I(1)), Pt(I(1), I(2))>>)}

\* Volumes passed to CalculateCentroid besides the weighted area of Test
VolumeArgs == {Q(1, 64), Q(1, 8), Q(1, 2)}

\* Arguments of LineIntegral: spacings and segments inside the region
SpacingArgs == {I(1), Q(1, 2), Q(1, 4), Q(2, 5), I(0), I(2)}

SegmentArgs ==
    {<<Pt(I(6), I(0)), Pt(I(6), I(12))>>, <<Pt(I(0), I(6)), Pt(I(12), I(6))>>,
     <<Pt(I(3), I(2)), Pt(I(3), I(10))>>, <<Pt(I(2), I(3)), Pt(I(10), I(9))>>}

\* The variables a Density query leaves alone
densFrame == <<pargs, pobj, perr, NRegions, desired_area, Prior, Alg_Params, Centers,
               Weights, Covering, pc, err, last_call, last_init, last_args, pd, ncalls>>

\* Partition::Partition sets the static Robustness_Constant from its
\* Parameters; the Density objects built earlier are not rebuilt.
PartitionBuilt ==
    /\ cp.pc = "idle"
    /\ Robustness_Constant # Q(1, 16)
    /\ Robustness_Constant' = Q(1, 16)
    /\ cp' = NotRunning
    /\ UNCHANGED densFrame

CalculateWeightedAreaCall ==
    /\ cp.pc = "idle"
    /\ \E Test \in TestPolys :
           cp' = [pc |-> "returned", op |-> "CalculateWeightedArea", Test |-> Test,
                  result |-> CalculateWeightedArea(Robustness_Constant, Prior, Test)]
    /\ UNCHANGED <<densFrame, Robustness_Constant>>

CalculateCentroidCall ==
    /\ cp.pc = "idle"
    /\ \E Test \in TestPolys :
       \E Volume \in VolumeArgs \cup
                        {CalculateWeightedArea(Robustness_Constant, Prior, Test)} :
           cp' = [pc |-> "returned", op |-> "CalculateCentroid", Test |-> Test,
                  Volume |-> Volume,
                  result |-> CalculateCentroid(Robustness_Constant, Prior, Test, Volume)]
    /\ UNCHANGED <<densFrame, Robustness_Constant>>

LineIntegralCall ==
    /\ cp.pc = "idle"
    /\ \E spacing \in SpacingArgs, seg \in SegmentArgs :
       \E msg \in {LineIntegralError(Prior, spacing)} :
           cp' = [pc |-> IF msg = "" THEN "returned" ELSE "thrown",
                  op |-> "LineIntegral", spacing |-> spacing, p1 |-> seg[1],
                  p2 |-> seg[2], err |-> msg,
                  result |-> IF msg = "" THEN LineIntegral(Prior, spacing, seg[1], seg[2])
                             ELSE NaN]
    /\ UNCHANGED <<densFrame, Robustness_Constant>>

InitDensity ==
    /\ ParamsIdle
    /\ \E case \in DensityCases :
           /\ Prior = case.Prior
           /\ Robustness_Constant = case.rc
    /\ NRegions = 0 /\ desired_area = <<>> /\ Alg_Params = DefaultParameters
    /\ Centers = <<>> /\ Weights = <<>> /\ Covering = <<>>
    /\ pc = "noobject" /\ err = "" /\ last_call = "none" /\ last_init = "never"
    /\ last_args = [cs |-> <<>>, ws |-> <<>>] /\ ncalls = 0
    /\ pd = NotRunning /\ cp = NotRunning

NextDensity ==
    \/ PartitionBuilt
    \/ CalculateWeightedAreaCall
    \/ CalculateCentroidCall
    \/ LineIntegralCall

SpecDensity == InitDensity /\ [][NextDensity]_vars

\* The last call was op and it returned
Returned(op) == cp.pc = "returned" /\ cp.op = op

\* The cell integrals (Int, Intx or Inty) accumulated for Test: the sum over
\* the cells whose four corner grid points pass Test.pnpoly
Accumulated(integral, Test) ==
    With(CellsInPoly(Robustness_Constant, Prior, Test),
         LAMBDA in : SumSeq([k \in 1..NCells(Prior) |->
                                IF in[k] THEN integral[k] ELSE I(0)]))

\* C11: CalculateWeightedArea never returns a value below Volume_Lower_Bound:
\* it returns the bound for an empty polygon and for a polygon whose
\* accumulated cell integral is below the bound, the accumulated sum
\* otherwise; so every volume it hands to the weight update is
\* >= Volume_Lower_Bound > 0.
C11_WeightedAreaFloored ==
    Returned("CalculateWeightedArea")
        => /\ cp.result =
                  IF cp.Test.NPoly = 0 THEN Prior.Volume_Lower_Bound
                  ELSE IF Lt(Accumulated(Prior.Integral.Int, cp.Test),
                             Prior.Volume_Lower_Bound)
                      THEN Prior.Volume_Lower_Bound
                  ELSE Accumulated(Prior.Integral.Int, cp.Test)
           /\ Ge(cp.result, Prior.Volume_Lower_Bound)
           /\ Gt(Prior.Volume_Lower_Bound, I(0))

\* A polygon with vertices that holds one cell, whose integral is below the
\* bound: the bound was returned.
C11_Witness_SumBelowBound ==
    /\ Returned("CalculateWeightedArea")
    /\ cp.Test.NPoly > 0
    /\ Gt(Accumulated(Prior.Integral.Int, cp.Test), I(0))
    /\ Lt(Accumulated(Prior.Integral.Int, cp.Test), Prior.Volume_Lower_Bound)
    /\ cp.result = Prior.Volume_Lower_Bound

\* The value CalculateCentroid returns for a polygon with vertices
CentroidOfCells(Test, Volume) ==
    IF Le(Volume, Prior.Volume_Lower_Bound) THEN Pt(Test.minx, Test.miny)
    ELSE Pt(Div(Accumulated(Prior.Integral.Intx, Test), Volume),
            Div(Accumulated(Prior.Integral.Inty, Test), Volume))

\* C12 as stated: CalculateCentroid returns the coordinate origin (0, 0) when
\* the test polygon is empty, the bounding-box minimum corner of the polygon
\* when the given volume is not above Volume_Lower_Bound, and otherwise
\* (sum of Intx, sum of Inty) / Volume over the cells whose four corners are
\* inside the test polygon.
C12_CentroidOriginWhenEmpty ==
    Returned("CalculateCentroid")
        => cp.result = IF cp.Test.NPoly = 0 THEN Pt(I(0), I(0))
                       ELSE CentroidOfCells(cp.Test, cp.Volume)

\* C12 amended: for an empty test polygon CalculateCentroid returns the
\* default Point, whose coordinates are both INFINITY (not the origin); the
\* other two cases are as stated.
C12_CentroidDefaultPointWhenEmpty ==
    Returned("CalculateCentroid")
        => cp.result = IF cp.Test.NPoly = 0 THEN Pt(INFINITY, INFINITY)
                       ELSE CentroidOfCells(cp.Test, cp.Volume)

\* CalculateCentroid has returned for an empty polygon
C12_Witness_EmptyPolygon ==
    /\ Returned("CalculateCentroid")
    /\ cp.Test.NPoly = 0
    /\ isinf(cp.result.x) /\ isinf(cp.result.y)

\* C13: after a Density is built from samples, the weighted area of its own
\* base region is 1: the stored cell integrals Int, summed over the cells
\* whose four corners are inside the base polygon (the cells
\* CalculateWeightedArea(base region) accumulates), sum to 1.
C13_BaseRegionAreaIsOne ==
    (Returned("CalculateWeightedArea") /\ cp.Test = Prior.Region)
        => /\ Eq(Accumulated(Prior.Integral.Int, Prior.Region), I(1))
           /\ Eq(cp.result, I(1))


RECURSIVE TrapezoidSum(_, _, _, _)
\* The sum over k = 0..n-1 of f(t_k) + f(t_k + s) with t_k = k*s, where f(t)
\* is the interpolated density at p1 + t*(p2 - p1)
TrapezoidSum(s, p1, p2, n) ==
    IF n = 0 THEN I(0)
    ELSE Add(TrapezoidSum(s, p1, p2, n - 1),
             Add(InterpolateValue(Prior, FindPointAlongLine(p1, p2, Mul(I(n - 1), s))),
                 InterpolateValue(Prior, FindPointAlongLine(p1, p2, Mul(I(n), s)))))

\* The spacing of the last call is 1/n for an integer n
WholeSteps == cp.spacing.n = 1 /\ cp.spacing.d >= 1

\* C16: LineIntegral(spacing, p1, p2) is the composite trapezoid rule of the
\* interpolated density over the whole segment from p1 to p2: for a spacing
\* s in (0,1] with 1/s an integer it returns s*|p1p2|/2 times the sum over
\* k = 0..1/s-1 of f(t_k)+f(t_k+s), and so c*|p1p2| for a density that is the
\* constant c along the segment (also for s = 1 and s = 1/2).
C16_LineIntegralIsCompositeTrapezoid ==
    (Returned("LineIntegral") /\ WholeSteps)
        => /\ cp.result =
                  Div(Mul(Mul(TrapezoidSum(cp.spacing, cp.p1, cp.p2, cp.spacing.d),
                              cp.spacing),
                          Distance(cp.p1, cp.p2)),
                      I(2))
           /\ \A c \in {InterpolateValue(Prior, cp.p1)} :
                  (\A k \in 1..cp.spacing.d :
                       InterpolateValue(Prior, FindPointAlongLine(cp.p1, cp.p2,
                                                   Mul(I(k), cp.spacing))) = c)
                      => cp.result = Mul(c, Distance(cp.p1, cp.p2))

----------------------------------------------------------------------------
(* Point and Poly on their own: the static predicates of Point and the     *)
(* vertex-list operations of one Poly object (held in Covering).           *)

\* The message SetVertices(V, GetExtrema) throws, "" when it returns
SetVerticesError(V, GetExtrema) ==
    IF GetExtrema THEN InitializePolyError(V)
    ELSE IF V # <<>> /\ Len(V) < 3
        THEN "List of vertices must contain at least 3 points"
    ELSE ""

\* The members of poly after SetVertices(V, GetExtrema), thrown or not: the
\* vertices are stored first, the extrema only change under GetExtrema.
SetVertices(poly, V, GetExtrema) ==
    IF GetExtrema
        THEN IF InitializePolyError(V) = "" THEN MakePoly(V) ELSE PolyAfterThrow(V)
    ELSE [poly EXCEPT !.Vertices = V, !.NPoly = Len(V)]

Triangle == MakePoly(<<Pt(I(1), I(1)), Pt(I(2), I(1)), Pt(I(1), I(2))>>)

\* The Poly objects the calls start from
GeomPolys == {EmptyPoly, Square, Triangle, Rect(0, 0, 6, 12)}

\* Vertex lists passed to Poly(...) and SetVertices: none, valid ones, too
\* short, with an infinite or NaN coordinate, with a repeated vertex, and
\* without extent in x or in y
GeomVertexLists ==
    {<<>>, Square.Vertices, Triangle.Vertices,
     <<Pt(I(0), I(0))>>, <<Pt(I(0), I(0)), Pt(I(12), I(12))>>,
     <<Pt(I(0), I(0)), Pt(I(12), I(0)), Pt(INFINITY, I(12))>>,
     <<Pt(I(0), I(0)), Pt(I(12), NegInf), Pt(I(12), I(12))>>,
     <<Pt(I(0), I(0)), Pt(I(12), I(0)), Pt(NaN, I(12))>>,
     <<Pt(I(0), I(0)), Pt(I(12), I(0)), Pt(I(0), I(0))>>,
     <<Pt(I(0), I(0)), Pt(I(12), I(0)), Pt(I(12), I(12)), Pt(I(12), I(0))>>,
     <<Pt(I(0), I(0)), Pt(I(0), I(6)), Pt(I(0), I(12))>>,
     <<Pt(I(0), I(3)), Pt(I(6), I(3)), Pt(I(12), I(3))>>}

\* Coordinates of the points tested by pnpoly: below, on and above the
\* extent of the polygons
GeomCoords == {I(-5), I(0), I(1), I(6), I(12), I(17)}

\* Points passed to AreCollinear and AreBetween, three from one set: points
\* on a vertical and on a horizontal line, and points near a line that is
\* almost horizontal
GeomPointSets ==
    {{Pt(I(0), I(0)), Pt(I(0), I(12)), Pt(I(0), I(-5)), Pt(I(0), I(17)),
      Pt(I(12), I(0)), Pt(I(6), I(0))},
     {Pt(I(0), I(0)), Pt(I(1), I(0)), Pt(I(1), Q(1, 32)), Pt(Q(1, 2), Q(5, 64))}}

geomFrame == <<pargs, pobj, perr, NRegions, desired_area, Prior, Alg_Params, Centers,
               Weights, pc, err, last_call, last_init, last_args, pd, ncalls,
               Robustness_Constant>>

\* Poly::Poly(Vertices): a throw of InitializePoly leaves no new object
PolyCtor ==
    /\ cp.pc = "idle"
    /\ \E V \in GeomVertexLists :
       \E msg \in {InitializePolyError(V)} :
           /\ cp' = [pc |-> IF msg = "" THEN "returned" ELSE "thrown", op |-> "Poly",
                     V |-> V, GetExtrema |-> TRUE, err |-> msg, before |-> Covering[1]]
           /\ Covering' = IF msg = "" THEN <<MakePoly(V)>> ELSE Covering
    /\ UNCHANGED geomFrame

\* Poly::SetVertices(Vertices, GetExtrema) on the object
SetVerticesCall ==
    /\ cp.pc = "idle"
    /\ \E V \in GeomVertexLists, GetExtrema \in BOOLEAN :
       \E msg \in {SetVerticesError(V, GetExtrema)} :
           /\ cp' = [pc |-> IF msg = "" THEN "returned" ELSE "thrown",
                     op |-> "SetVertices", V |-> V, GetExtrema |-> GetExtrema,
                     err |-> msg, before |-> Covering[1]]
           /\ Covering' = <<SetVertices(Covering[1], V, GetExtrema)>>
    /\ UNCHANGED geomFrame

\* Poly::pnpoly(Test) on the object
pnpolyCall ==
    /\ cp.pc = "idle"
    /\ \E x \in GeomCoords, y \in GeomCoords :
           cp' = IF Covering[1].Vertices = <<>>
                     THEN [pc |-> "thrown", op |-> "pnpoly", Test |-> Pt(x, y),
                           err |-> "Polygon vertices have not been initialized",
                           result |-> FALSE]
                 ELSE [pc |-> "returned", op |-> "pnpoly", Test |-> Pt(x, y),
                       err |-> "",
                       result |-> pnpoly(Robustness_Constant, Covering[1], Pt(x, y))]
    /\ UNCHANGED <<geomFrame, Covering>>

\* Point::AreCollinear(Test1, Test2, Test3)
AreCollinearCall ==
    /\ cp.pc = "idle"
    /\ \E S \in GeomPointSets :
       \E Test1 \in S, Test2 \in S, Test3 \in S :
           cp' = [pc |-> "returned", op |-> "AreCollinear", Test1 |-> Test1,
                  Test2 |-> Test2, Test3 |-> Test3,
                  result |-> AreCollinear(Robustness_Constant, Test1, Test2, Test3)]
    /\ UNCHANGED <<geomFrame, Covering>>

\* Point::AreBetween(Test1, Test2, Test3)
AreBetweenCall ==
    /\ cp.pc = "idle"
    /\ \E S \in GeomPointSets :
       \E Test1 \in S, Test2 \in S, Test3 \in S :
           cp' = [pc |-> "returned", op |-> "AreBetween", Test1 |-> Test1,
                  Test2 |-> Test2, Test3 |-> Test3,
                  result |-> AreBetween(Robustness_Constant, Test1, Test2, Test3)]
    /\ UNCHANGED <<geomFrame, Covering>>

\* One Poly object; Point::Robustness_Constant is zero before any Partition
\* exists and the Parameters value after
InitGeometry ==
    /\ ParamsIdle
    /\ Robustness_Constant \in {I(0), Q(1, 16)}
    /\ Covering \in {<<P>> : P \in GeomPolys}
    /\ NRegions = 0 /\ desired_area = <<>>
    /\ Prior = DefaultDensity /\ Alg_Params = DefaultParameters
    /\ Centers = <<>> /\ Weights = <<>>
    /\ pc = "noobject" /\ err = "" /\ last_call = "none" /\ last_init = "never"
    /\ last_args = [cs |-> <<>>, ws |-> <<>>] /\ ncalls = 0
    /\ pd = NotRunning /\ cp = NotRunning

NextGeometry ==
    \/ PolyCtor
    \/ SetVerticesCall
    \/ pnpolyCall
    \/ AreCollinearCall
    \/ AreBetweenCall

SpecGeometry == InitGeometry /\ [][NextGeometry]_vars

\* The polygon is valid: it has vertices, passes the checks of
\* InitializePoly, and its cached bounding box is the one InitializePoly sets
ValidPoly(poly) ==
    /\ poly.Vertices # <<>>
    /\ InitializePolyError(poly.Vertices) = ""
    /\ poly = MakePoly(poly.Vertices)

StrictlyOutsideBox(poly, Test) ==
    \/ Lt(Test.x, poly.minx) \/ Gt(Test.x, poly.maxx)
    \/ Lt(Test.y, poly.miny) \/ Gt(Test.y, poly.maxy)

\* C14: for a valid polygon (with vertices, at least 3 distinct ones, not
\* degenerate) and a test point strictly outside its bounding box, pnpoly
\* returns false, whatever the direction of the edges: also for a vertical or
\* horizontal edge whose supporting line passes through the test point.
C14_OutsideBoxIsOutside ==
    (/\ Returned("pnpoly")
     /\ Gt(Robustness_Constant, I(0))
     /\ ValidPoly(Covering[1])
     /\ StrictlyOutsideBox(Covering[1], cp.Test))
        => cp.result = FALSE

\* C15: AreCollinear(Test1, Test2, Test3) and AreBetween(Test1, Test2, Test3)
\* return the same boolean when Test1 and Test2 are swapped, for every triple
\* of points with Test1 # Test2.
C15_SymmetricInTest1Test2 ==
    /\ (Returned("AreCollinear") /\ cp.Test1 # cp.Test2)
           => cp.result = AreCollinear(Robustness_Constant, cp.Test2, cp.Test1, cp.Test3)
    /\ (Returned("AreBetween") /\ cp.Test1 # cp.Test2)
           => cp.result = AreBetween(Robustness_Constant, cp.Test2, cp.Test1, cp.Test3)

Finite(x) == ~isinf(x) /\ ~isnan(x)

\* The vertex list is empty, or has at least 3 vertices, all finite and
\* pairwise distinct, that differ in x and differ in y
AcceptableList(V) ==
    \/ V = <<>>
    \/ /\ Len(V) >= 3
       /\ \A k \in 1..Len(V) : Finite(V[k].x) /\ Finite(V[k].y)
       /\ \A j, k \in 1..Len(V) : j # k => V[j] # V[k]
       /\ \E j, k \in 1..Len(V) : V[j].x # V[k].x
       /\ \E j, k \in 1..Len(V) : V[j].y # V[k].y

\* The cached bounding box of poly is the min/max of the vertices V
BoxOfVertices(poly, V) ==
    /\ \A k \in 1..Len(V) :
           /\ Le(poly.minx, V[k].x) /\ Le(V[k].x, poly.maxx)
           /\ Le(poly.miny, V[k].y) /\ Le(V[k].y, poly.maxy)
    /\ \E k \in 1..Len(V) : poly.minx = V[k].x
    /\ \E k \in 1..Len(V) : poly.maxx = V[k].x
    /\ \E k \in 1..Len(V) : poly.miny = V[k].y
    /\ \E k \in 1..Len(V) : poly.maxy = V[k].y

SameBox(p, q) ==
    p.minx = q.minx /\ p.maxx = q.maxx /\ p.miny = q.miny /\ p.maxy = q.maxy

\* C17: constructing a Poly, or SetVertices with extrema recomputation, fails
\* with an error unless the vertex list is empty or has at least 3 finite,
\* pairwise-distinct vertices with minx # maxx and miny # maxy, and on
\* success the cached bounding box is the min/max of the vertices;
\* SetVertices without extrema recomputation fails only when a non-empty list
\* has fewer than 3 vertices, and leaves the cached bounding box unchanged.
C17_VertexListChecks ==
    (cp.pc \in {"returned", "thrown"} /\ cp.op \in {"Poly", "SetVertices"})
        => IF cp.GetExtrema
               THEN /\ ~AcceptableList(cp.V) => cp.pc = "thrown"
                    /\ (cp.pc = "returned" /\ cp.V # <<>>)
                           => BoxOfVertices(Covering[1], cp.V)
           ELSE /\ cp.pc = "thrown" <=> (cp.V # <<>> /\ Len(cp.V) < 3)
                /\ SameBox(Covering[1], cp.before)

----------------------------------------------------------------------------
(* CalculatePartition called twice on one Partition object.  cp.entry is   *)
(* history: Centers, Weights and Covering as the running call found them.  *)

\* Initialized Partitions with two calls left: centres at the centroids of
\* the two halves, centres one full step away from them, one region, and
\* desired areas the weight steps do not reach within the caps
RepeatConfigs ==
    {[Centers |-> cs, Weights |-> <<I(0), I(0)>>,
      desired_area |-> <<Q(1, 2), Q(1, 2)>>, Prior |-> UniformPrior,
      Alg_Params |-> CPParams(Q(1, 2), Q(1, 100), 1, 2)] :
         cs \in {<<Pt(I(3), I(6)), Pt(I(9), I(6))>>, <<Pt(I(2), I(6)), Pt(I(10), I(6))>>}}
    \cup
    {[Centers |-> <<Pt(I(5), I(5))>>, Weights |-> <<I(0)>>,
      desired_area |-> <<I(1)>>, Prior |-> UniformPrior,
      Alg_Params |-> CPParams(Q(1, 2), Q(1, 100), 1, 2)],
     [Centers |-> <<Pt(I(3), I(6)), Pt(I(9), I(6))>>, Weights |-> <<I(0), I(0)>>,
      desired_area |-> <<Q(1, 4), Q(3, 4)>>, Prior |-> UniformPrior,
      Alg_Params |-> CPParams(Q(1, 2), Q(1, 100), 1, 1)]}

\* A Partition object after a successful InitializePartition, no call made
InitRepeat ==
    /\ ParamsIdle
    /\ \E cfg \in RepeatConfigs :
           /\ NRegions = Len(cfg.Centers)
           /\ Centers = cfg.Centers
           /\ Weights = cfg.Weights
           /\ desired_area = cfg.desired_area
           /\ Covering = [k \in 1..Len(cfg.Centers) |-> EmptyPoly]
           /\ last_args = [cs |-> cfg.Centers, ws |-> cfg.Weights]
           /\ Alg_Params = cfg.Alg_Params
           /\ Robustness_Constant = cfg.Alg_Params.Robustness_Constant
           /\ Prior = SetVolumeLowerBound(cfg.Prior, cfg.Alg_Params.Volume_Lower_Bound)
    /\ pc = "idle" /\ err = ""
    /\ last_call = "InitializePartition" /\ last_init = "ok" /\ ncalls = 0
    /\ pd = NotRunning /\ cp = NotRunning

SpecRepeat == InitRepeat /\ [][NextCP]_vars

\* The state the running call started from was converged: every centre at
\* the density-weighted centroid of its covering polygon, and the squared
\* volume error within volume_tolerance
EntryConverged ==
    With(CalculateVolumes(Members, cp.entry.Covering),
         LAMBDA volumes :
             /\ \A ii \in 1..NRegions :
                    CalculateCentroid(Robustness_Constant, Prior,
                                      cp.entry.Covering[ii], volumes[ii])
                        = cp.entry.Centers[ii]
             /\ Le(CalculateError(Members, volumes), Alg_Params.volume_tolerance))

\* C18: CalculatePartition called on a converged state (every centre at the
\* density-weighted centroid of its covering polygon, squared volume error
\* within volume_tolerance) is a fixed point: after the initial centre step,
\* the skipped inner loop and the single outer iteration, Centers, Weights
\* and Covering are what they were before the call.
C18_ConvergedIsFixedPoint ==
    (pc = "idle" /\ cp.pc = "returned" /\ EntryConverged)
        => /\ Centers = cp.entry.Centers
           /\ Weights = cp.entry.Weights
           /\ Covering = cp.entry.Covering
           /\ cp.count2 = 1 /\ cp.count1 = 0

\* The second call has returned and had started from a converged state
C18_Witness_SecondCallOnConverged ==
    /\ pc = "idle" /\ cp.pc = "returned" /\ ncalls = 2
    /\ EntryConverged
    /\ Centers = cp.entry.Centers /\ Covering = cp.entry.Covering

----------------------------------------------------------------------------
(* The weight steps of CalculatePartition: runs in which the graph of      *)
(* shared edges is rebuilt for a Covering that has changed.                *)

\* Initialized Partitions: two regions and a weights_step large enough for
\* one weight step to empty a region; three regions in a row, the outer two
\* not adjacent.
WeightStepConfigs ==
    {[Centers |-> <<Pt(I(3), I(6)), Pt(I(9), I(6))>>, Weights |-> <<I(0), I(0)>>,
      desired_area |-> <<Q(1, 4), Q(3, 4)>>, Prior |-> UniformPrior,
      Alg_Params |-> [CPParams(Q(1, 2), Q(1, 100), 2, 1) EXCEPT !.weights_step = I(48)]],
     [Centers |-> <<Pt(I(2), I(6)), Pt(I(6), I(6)), Pt(I(10), I(6))>>,
      Weights |-> <<I(0), I(0), I(0)>>,
      desired_area |-> <<Q(1, 4), Q(1, 2), Q(1, 4)>>, Prior |-> StripPrior,
      Alg_Params |-> [CPParams(Q(1, 4), Q(1, 100), 1, 1) EXCEPT !.weights_step = I(1)]]}

\* A Partition object after a successful InitializePartition, with one call
\* left.
InitWeightSteps ==
    /\ ParamsIdle
    /\ \E cfg \in WeightStepConfigs :
           /\ NRegions = Len(cfg.Centers)
           /\ Centers = cfg.Centers
           /\ Weights = cfg.Weights
           /\ desired_area = cfg.desired_area
           /\ Covering = [k \in 1..Len(cfg.Centers) |-> EmptyPoly]
           /\ last_args = [cs |-> cfg.Centers, ws |-> cfg.Weights]
           /\ Alg_Params = cfg.Alg_Params
           /\ Robustness_Constant = cfg.Alg_Params.Robustness_Constant
           /\ Prior = SetVolumeLowerBound(cfg.Prior, cfg.Alg_Params.Volume_Lower_Bound)
    /\ pc = "idle" /\ err = ""
    /\ last_call = "InitializePartition" /\ last_init = "ok" /\ ncalls = MaxCalls - 1
    /\ pd = NotRunning /\ cp = NotRunning

SpecWeightSteps == InitWeightSteps /\ [][NextCP]_vars

\* The edge of Pi from vertex kk and the edge of Pj from vertex pp are
\* collinear and FindCollinearIntersection finds a point they share
EdgesOverlap(Pi, Pj, kk, pp) ==
    /\ AreCollinear(Robustness_Constant, Pi.Vertices[kk],
                    Pi.Vertices[NextIdx(Pi.Vertices, kk)], Pj.Vertices[pp])
    /\ AreCollinear(Robustness_Constant, Pi.Vertices[kk],
                    Pi.Vertices[NextIdx(Pi.Vertices, kk)],
                    Pj.Vertices[NextIdx(Pj.Vertices, pp)])
    /\ FindCollinearIntersection(Robustness_Constant, Pi.Vertices[kk],
                                 Pi.Vertices[NextIdx(Pi.Vertices, kk)], Pj.Vertices[pp],
                                 Pj.Vertices[NextIdx(Pj.Vertices, pp)]) # <<>>

\* The polygons Pi and Pj have no overlapping collinear edges
NoOverlap(Pi, Pj) ==
    \A kk \in 1..Pi.NPoly, pp \in 1..Pj.NPoly : ~EdgesOverlap(Pi, Pj, kk, pp)

\* CreateDelaunayGraph has just been called on the current Covering (the
\* weight step that follows it has run, CreatePowerDiagram has not started)
GraphJustBuilt ==
    \/ cp.pc = "inner_pd" /\ pc = "CreatePowerDiagram" /\ pd = PDEntry(Members)
    \/ cp.pc = "thrown" /\ cp.count1 < Alg_Params.max_iterations_volume
           /\ Gt(cp.error_vol, Alg_Params.volume_tolerance)

\* C19: after every CreateDelaunayGraph call made by CalculatePartition (one
\* graph object is reused for all iterations), for every pair i # j whose
\* current covering polygons have no overlapping collinear edges, both
\* endpoints of entry (i,j) and of entry (j,i) are the undefined sentinel
\* (infinite coordinates), whatever the entry held after earlier builds.
C19_NoStaleSharedEdge ==
    GraphJustBuilt
        => \A i, j \in 1..NRegions :
               (i # j /\ NoOverlap(Covering[i], Covering[j]))
                   => /\ cp.Delaunay[i][j] = <<DefaultPoint, DefaultPoint>>
                      /\ cp.Delaunay[j][i] = <<DefaultPoint, DefaultPoint>>

\* L_ij of the weight step that has just run: the line integral of the
\* density along the shared edge in adjacency entry (i,j) of the graph the
\* step was given, 0 when the second endpoint of the entry is undefined
SharedEdgeIntegral(i, j) ==
    IF cp'.Delaunay[i][j][2] = DefaultPoint THEN I(0)
    ELSE LineIntegral(Prior, Alg_Params.line_int_step,
                      cp'.Delaunay[i][j][1], cp'.Delaunay[i][j][2])

RECURSIVE WeightGradient(_, _)
\* The sum over the regions j <= n, j # i, of
\* [(desired_j/volume_j) - (desired_i/volume_i)] * (1/|center_i - center_j|) * L_ij,
\* taken from the last region down
WeightGradient(i, n) ==
    IF n = 0 THEN I(0)
    ELSE IF n = i THEN WeightGradient(i, n - 1)
    ELSE Add(Mul(Mul(Sub(Div(desired_area[n], cp.volumes[n]),
                         Div(desired_area[i], cp.volumes[i])),
                     Div(I(1), Distance(Centers[i], Centers[n]))),
                 SharedEdgeIntegral(i, n)),
             WeightGradient(i, n - 1))

\* The step of CalculatePartition that runs GradientStepWeights to its end
WeightStepTaken == cp.pc = "inner" /\ cp'.pc = "inner_pd"

\* C20: GradientStepWeights changes weight i by -weights_step times the sum
\* over j # i of [(desired_j/volume_j) - (desired_i/volume_i)] *
\* (1/|center_i - center_j|) * L_ij, where L_ij is the line integral of the
\* density along the shared edge when adjacency entry (i,j) has a defined
\* second endpoint and 0 otherwise; when the covering polygon of region i is
\* empty it adds 2*weights_step to weight i instead.  Every change is a
\* function of the weights, volumes, centres and graph before the call, so
\* it does not depend on the order in which the regions are processed.
C20_WeightStepFormula ==
    [][WeightStepTaken
          => \A i \in 1..NRegions :
                 Weights'[i] =
                     IF Covering[i].NPoly = 0
                         THEN Add(Weights[i], Mul(I(2), Alg_Params.weights_step))
                     ELSE Sub(Weights[i],
                              Mul(Alg_Params.weights_step,
                                  WeightGradient(i, NRegions)))]_vars

\* A weight step has run for three regions, the outer two not adjacent, and
\* has changed every weight
C20_Witness_ThreeRegions ==
    /\ cp.pc = "inner_pd" /\ pd = PDEntry(Members)
    /\ NRegions = 3
    /\ cp.Delaunay[1][3][2] = DefaultPoint
    /\ cp.Delaunay[1][2][2] # DefaultPoint /\ cp.Delaunay[2][3][2] # DefaultPoint
    /\ \A i \in 1..3 : Covering[i].NPoly > 0 /\ Weights[i] # cp.entry.Weights[i]

----------------------------------------------------------------------------
(* The order of the rebuilds in CalculatePartition, checked under          *)
(* SpecWeightSteps.                                                        *)

\* The last CreatePowerDiagram call has run to its end and read the current
\* Centers and Weights: Covering is the diagram built from them
CurrentDiagram ==
    /\ pd.pc = "done"
    /\ pd.built_from = [Centers |-> Centers, Weights |-> Weights]

\* The step of CalculatePartition that runs a centre step: the initial one
\* or the one that follows the inner loop
CenterStepTaken ==
    \/ cp.pc = "first" /\ cp'.pc = "outer"
    \/ cp.pc = "inner" /\ cp'.pc = "outer_pd"

\* The volumes the step that is being taken was given
VolumesOfStep == IF cp.pc = "first" THEN cp'.volumes ELSE cp.volumes

\* C21: inside CalculatePartition every change of Weights or Centers (by a
\* step that runs to its end) starts a CreatePowerDiagram call on the new
\* values, and nothing changes them while it runs; every weight step and
\* every centre step is given the weighted areas of a Covering that is the
\* diagram of the current Centers and Weights; every weight step is given
\* the graph CreateDelaunayGraph has just made of the current Covering; and
\* when the function returns, Covering is the diagram of the returned
\* Centers and Weights.
C21_RebuildAfterEveryChange ==
    [][/\ ((Centers' # Centers \/ Weights' # Weights) /\ cp'.pc # "thrown")
              => (pc' = "CreatePowerDiagram" /\ pd' = PDEntry(Members'))
       /\ pc = "CreatePowerDiagram" => UNCHANGED <<Centers, Weights>>
       /\ (WeightStepTaken \/ CenterStepTaken)
              => /\ CurrentDiagram
                 /\ VolumesOfStep = CalculateVolumes(Members, Covering)
       /\ WeightStepTaken
              => cp'.Delaunay
                     = CreateDelaunayGraph(Robustness_Constant, Covering, cp.Delaunay)
       /\ (cp.pc # "returned" /\ cp'.pc = "returned") => CurrentDiagram']_vars

\* CalculatePartition has returned after weight steps and centre steps that
\* changed every weight and some centre
C21_Witness_ReturnedAfterSteps ==
    /\ cp.pc = "returned" /\ cp.count1 > 0 /\ cp.count2 > 0
    /\ CurrentDiagram
    /\ \A i \in 1..NRegions : Weights[i] # cp.entry.Weights[i]
    /\ Centers # cp.entry.Centers

----------------------------------------------------------------------------
(* Building a Density: SetNewRegion and SetParameters on one Density       *)
(* object (held in Prior), and InterpolateValue on the object they leave.  *)

\* Samples on a grid of Nx x Ny points: constant, growing with the row jj,
\* growing with the column ii
Constant(Nx, Ny, v) == [k \in 1..(Nx * Ny) |-> v]
RowRamp(Nx, Ny) == [k \in 1..(Nx * Ny) |-> I(((k - 1) % Ny) + 1)]
ColumnRamp(Nx, Ny) == [k \in 1..(Nx * Ny) |-> I(((k - 1) \div Ny) + 1)]

\* Arguments of SetParameters: grids of 3 x 3, 3 x 2, 2 x 2 and 1 x 1 points
\* with samples of the right size (all 1, all 0, ramps), no grid, and a
\* vector of the wrong size
BuildGrids ==
    {[Nx |-> 3, Ny |-> 3, Values |-> Constant(3, 3, I(1))],
     [Nx |-> 3, Ny |-> 3, Values |-> Constant(3, 3, I(0))],
     [Nx |-> 3, Ny |-> 3, Values |-> RowRamp(3, 3)],
     [Nx |-> 3, Ny |-> 2, Values |-> ColumnRamp(3, 2)],
     [Nx |-> 2, Ny |-> 2, Values |-> Constant(2, 2, I(0))],
     [Nx |-> 1, Ny |-> 1, Values |-> Constant(1, 1, I(0))],
     [Nx |-> 0, Ny |-> 0, Values |-> <<>>],
     [Nx |-> 2, Ny |-> 2, Values |-> Constant(1, 3, I(1))]}

\* Regions given to SetNewRegion
BuildRegions == {Square, Triangle}

\* Points InterpolateValue is asked for: grid points of the 3 x 3 grid on
\* the square and points inside its cells
InterpolatePoints ==
    {Pt(I(x), I(y)) : x \in {0, 3, 6, 9}, y \in {0, 3, 6, 9}} \cup {Pt(I(12), I(12))}

\* The variables a call on the Density object leaves alone
buildFrame == <<pargs, pobj, perr, Robustness_Constant, NRegions, desired_area,
                Alg_Params, Centers, Weights, Covering, pc, last_call, last_init,
                last_args, pd>>

\* How a call that left the result r (the message thrown and the object)
\* ended; cp keeps the object before the call and the arguments as history
Outcome(r) ==
    IF r.err # "" THEN "thrown" ELSE IF r.D.fault # "" THEN "crashed" ELSE "returned"

\* Density::SetNewRegion(Region, Nx, Ny, Values)
SetNewRegionCall ==
    /\ cp.pc # "crashed" /\ ncalls < MaxCalls
    /\ \E Region \in BuildRegions, g \in BuildGrids :
       \E r \in {SetNewRegion(Robustness_Constant, Prior, Region, g.Nx, g.Ny, g.Values)} :
           /\ Prior' = r.D
           /\ err' = r.err
           /\ cp' = [pc |-> Outcome(r), op |-> "SetNewRegion", before |-> Prior,
                     Region |-> Region, Nx |-> g.Nx, Ny |-> g.Ny, Values |-> g.Values]
    /\ ncalls' = ncalls + 1
    /\ UNCHANGED buildFrame

\* Density::SetParameters(Nx, Ny, Values): the Region stays
SetParametersCall ==
    /\ cp.pc # "crashed" /\ ncalls < MaxCalls
    /\ \E g \in BuildGrids :
       \E r \in {SetParameters(Robustness_Constant, Prior, Prior.Region,
                               g.Nx, g.Ny, g.Values)} :
           /\ Prior' = r.D
           /\ err' = r.err
           /\ cp' = [pc |-> Outcome(r), op |-> "SetParameters", before |-> Prior,
                     Region |-> Prior.Region, Nx |-> g.Nx, Ny |-> g.Ny,
                     Values |-> g.Values]
    /\ ncalls' = ncalls + 1
    /\ UNCHANGED buildFrame

\* Density::InterpolateValue(Test), for a point whose reads of Values stay
\* inside the vector
InterpolateValueCall ==
    /\ cp.pc \in {"returned", "thrown"} /\ cp.op # "InterpolateValue"
    /\ Prior.Values # <<>> /\ Prior.Nx * Prior.Ny = Len(Prior.Values)
    /\ \E Test \in InterpolatePoints :
           /\ InterpolateInBounds(Prior, Test)
           /\ cp' = [pc |-> "returned", op |-> "InterpolateValue", before |-> Prior,
                     Test |-> Test, result |-> InterpolateValue(Prior, Test)]
    /\ ncalls' = MaxCalls
    /\ UNCHANGED <<buildFrame, Prior, err>>

\* Density(): no region and no samples, with the static Robustness_Constant
\* at its zero initial value or set by an earlier Partition
InitBuild ==
    /\ ParamsIdle
    /\ Prior = DefaultDensity
    /\ Robustness_Constant \in {I(0), Q(1, 16)}
    /\ NRegions = 0 /\ desired_area = <<>> /\ Alg_Params = DefaultParameters
    /\ Centers = <<>> /\ Weights = <<>> /\ Covering = <<>>
    /\ pc = "noobject" /\ err = "" /\ last_call = "none" /\ last_init = "never"
    /\ last_args = [cs |-> <<>>, ws |-> <<>>] /\ ncalls = 0
    /\ pd = NotRunning /\ cp = NotRunning

NextBuild == SetNewRegionCall \/ SetParametersCall \/ InterpolateValueCall

SpecBuild == InitBuild /\ [][NextBuild]_vars

----------------------------------------------------------------------------
(* Properties of the build, checked under SpecBuild.                       *)

\* The last call built the integrals of a Density with samples and returned
BuildReturned ==
    /\ cp.pc = "returned" /\ cp.op \in {"SetNewRegion", "SetParameters"}
    /\ Prior.Values # <<>>

\* a*x + b*y + c*x*y + d for the stored coefficients of cell k at the point p
CellPolynomial(D, k, p) ==
    Add(Add(Add(Mul(D.Integral.Coefficient_a[k], p.x), Mul(D.Integral.Coefficient_b[k], p.y)),
            Mul(D.Integral.Coefficient_c[k], Mul(p.x, p.y))),
        D.Integral.Coefficient_d[k])

\* C22: for every grid cell (i,i+1)x(j,j+1) and all sample values, the
\* stored coefficients a, b, c, d satisfy a*x + b*y + c*x*y + d = sample
\* value at each of the four corner grid points of the cell, the corner
\* (i+1,j+1) included when the samples at (i,j) and (i,j+1) differ.
C22_CoefficientsFitCorners ==
    BuildReturned
        => \A k \in 1..NCells(Prior) : \A di, dj \in {0, 1} :
               Eq(CellPolynomial(Prior, k,
                                 ConvertIndextoWorld(Prior, CellColumn(Prior, k) + di,
                                                     CellRow(Prior, k) + dj)),
                  ValueAt(Prior, CellColumn(Prior, k) + di, CellRow(Prior, k) + dj))

\* The last call was InterpolateValue
Interpolated == cp.pc = "returned" /\ cp.op = "InterpolateValue"

\* The bilinear interpolant of the corner samples of the cell (i, j) of D
\* at the normalized offsets xr, ys; the last column and row have offset 0
\* and are their own neighbours, as in InterpolateValue
Bilinear(D, Test, i, j) ==
    LET i1 == IF i = D.Nx - 1 THEN i ELSE i + 1
        j1 == IF j = D.Ny - 1 THEN j ELSE j + 1
        p == ConvertIndextoWorld(D, i, j)
        xr == IF i = D.Nx - 1 THEN I(0) ELSE Div(Sub(Test.x, p.x), D.dx)
        ys == IF j = D.Ny - 1 THEN I(0) ELSE Div(Sub(Test.y, p.y), D.dy)
    IN  Add(Add(Mul(ValueAt(D, i, j), Mul(Sub(I(1), xr), Sub(I(1), ys))),
                Mul(ValueAt(D, i1, j), Mul(xr, Sub(I(1), ys)))),
            Add(Mul(ValueAt(D, i, j1), Mul(Sub(I(1), xr), ys)),
                Mul(ValueAt(D, i1, j1), Mul(xr, ys))))

\* The corner samples of the cell (i, j) of D
CornerSamples(D, i, j) ==
    {ValueAt(D, ii, jj) :
        ii \in {i, IF i = D.Nx - 1 THEN i ELSE i + 1},
        jj \in {j, IF j = D.Ny - 1 THEN j ELSE j + 1}}

\* C23: InterpolateValue(P) for a point P in grid cell (i,j) with normalized
\* offsets xr, ys in [0,1) returns the bilinear interpolant
\* v00*(1-xr)*(1-ys) + v10*xr*(1-ys) + v01*(1-xr)*ys + v11*xr*ys of the four
\* corner samples; the result lies between the minimum and the maximum of
\* the four corner samples and equals the sample value at a grid point.
C23_InterpolateIsBilinear ==
    Interpolated
        => \A c \in {InterpolateCell(Prior, cp.Test)} :
               /\ Eq(cp.result, Bilinear(Prior, cp.Test, c[1], c[2]))
               /\ \E v \in CornerSamples(Prior, c[1], c[2]) : Le(v, cp.result)
               /\ \E v \in CornerSamples(Prior, c[1], c[2]) : Ge(v, cp.result)
               /\ IsEqual(cp.Test, ConvertIndextoWorld(Prior, c[1], c[2]))
                      => Eq(cp.result, ValueAt(Prior, c[1], c[2]))

\* The total CreateIntegralVector returns for the arguments of the last
\* call: the integral of the samples over the cells inside the region
TotalOfArguments ==
    With(DensityMembers(cp.before, cp.Region, [Nx |-> cp.Nx, Ny |-> cp.Ny,
                                               Values |-> cp.Values]),
         LAMBDA D1 :
             CreateIntegralVector(Robustness_Constant, D1,
                                  CreateIntegralCoefficients(D1)).Total)

\* The last call was a build with samples of the right size whose total is 0
ZeroTotalBuild ==
    /\ cp.pc # "idle" /\ cp.op \in {"SetNewRegion", "SetParameters"}
    /\ cp.Region.NPoly > 0 /\ cp.Nx >= 1 /\ cp.Ny >= 1
    /\ cp.Nx * cp.Ny = Len(cp.Values)
    /\ Eq(TotalOfArguments, I(0))

\* C24: when the density total over the base region is zero, building the
\* Density (SetParameters) terminates: every sample is replaced by
\* 1/unweighted-area, the coefficients and integrals are recomputed once and
\* the field ends normalized (the integrals of the cells inside the region
\* sum to 1), for every grid size Nx, Ny >= 1 and every region, the grids in
\* which no cell has all four corners inside the region included.
C24_ZeroTotalFallsBackOnce ==
    ZeroTotalBuild
        => /\ cp.pc = "returned"
           /\ \A k \in 1..Len(Prior.Values) :
                  Eq(Prior.Values[k], Div(I(1), Prior.Integral.Unweighted_Area))
           /\ Eq(SumSeq([k \in 1..NCells(Prior) |->
                             IF CellInRegion(Robustness_Constant, Prior,
                                             CellColumn(Prior, k), CellRow(Prior, k))
                                 THEN Prior.Integral.Int[k] ELSE I(0)]), I(1))

----------------------------------------------------------------------------
(* The bisector search for equal weights, checked under SpecPD.            *)

\* CreatePowerDiagram is working on the pair (pd.ii, pd.jj), whose weights
\* are equal and whose centres are distinct (all of them finite)
EqualWeightPair ==
    /\ pc = "CreatePowerDiagram" /\ pd.pc \in {"bisect", "size", "clip"}
    /\ Eq(Weights[pd.ii], Weights[pd.jj])
    /\ ~IsEqual(Centers[pd.ii], Centers[pd.jj])

\* The midpoint of the centres of the pair
Midpoint ==
    Pt(Div(Add(Centers[pd.ii].x, Centers[pd.jj].x), I(2)),
       Div(Add(Centers[pd.ii].y, Centers[pd.jj].y), I(2)))

BuildThrown ==
    cp.pc = "thrown" /\ cp.op \in {"SetNewRegion", "SetParameters"}

\* C26: a call that fails validation leaves the object exactly as it was
\* before the call: Density::SetParameters / SetNewRegion (and likewise
\* Poly::SetVertices, Partition::SetPartitionVariables and
\* Partition::InitializePartition) change no field when they raise an
\* error, so the data-model invariants (Nx*Ny == number of samples) still
\* hold afterwards.
C26_FailedCallChangesNothing ==
    BuildThrown
        => /\ Prior = cp.before
           /\ Prior.Nx * Prior.Ny = Len(Prior.Values)

----------------------------------------------------------------------------
(* The sum of the weights, checked under SpecWeightSteps.                  *)

\* No covering polygon is empty
NoEmptyPolygon == \A i \in 1..NRegions : Covering[i].NPoly > 0

\* C29: a weight step in which no covering polygon is empty leaves the sum
\* of all weights unchanged: the pairwise terms are antisymmetric (the
\* difference of desired/volume changes sign, the centre distance and the
\* line integral are the same for (i,j) and (j,i)), so the changes of all
\* weights sum to 0 in exact arithmetic.
C29_WeightSumUnchanged ==
    [][(WeightStepTaken /\ NoEmptyPolygon)
          => Eq(SumSeq(Weights'), SumSeq(Weights))]_vars

\* The first weight step of a call has changed the weights of three
\* non-empty regions, not all by the same amount, and kept their sum
C29_Witness_WeightsMoved ==
    /\ cp.pc = "inner_pd" /\ pd = PDEntry(Members) /\ cp.count1 = 0
    /\ NRegions = 3 /\ NoEmptyPolygon
    /\ Weights[1] # cp.entry.Weights[1]
    /\ Sub(Weights[2], cp.entry.Weights[2]) # Sub(Weights[1], cp.entry.Weights[1])
    /\ Eq(SumSeq(Weights), SumSeq(cp.entry.Weights))

----------------------------------------------------------------------------
(* The centres during CalculatePartition, checked under SpecWeightSteps.   *)

\* A centre step of the running or finished CalculatePartition call has run
AfterCenterStep == cp.pc \in {"outer", "inner", "inner_pd", "outer_pd", "returned"}

\* p is inside the bounding box of the base region
InRegionBox(p) ==
    /\ Le(Prior.minx, p.x) /\ Le(p.x, Prior.maxx)
    /\ Le(Prior.miny, p.y) /\ Le(p.y, Prior.maxy)

\* C27: throughout CalculatePartition, after the initial centre step and
\* after every later centre step, every centre has finite coordinates and
\* lies inside the bounding box of the base region, also when the covering
\* polygon of some region is empty or its volume is at the lower area bound.
C27_CentersFiniteInBox ==
    AfterCenterStep
        => \A i \in 1..NRegions :
               /\ Finite(Centers[i].x) /\ Finite(Centers[i].y)
               /\ InRegionBox(Centers[i])

----------------------------------------------------------------------------
(* The static Point::Robustness_Constant with more than one Partition: the *)
(* Partition object of the state, and the constructor of another Partition *)
(* object, which shares nothing with it but the static.                    *)

\* Parameters objects given to the other Partition: the same
\* Robustness_Constant as this Partition's, and a smaller one
OtherParamsValues ==
    {PartitionParams(Q(1, 4)),
     [PartitionParams(Q(1, 4)) EXCEPT !.Robustness_Constant = Q(1, 16)]}

\* Partition::Partition(NRegions, Prior, desired_area, params) of another
\* object: the static is assigned before CheckParams runs, whatever the
\* other arguments are
OtherPartitionCtor(params) ==
    /\ pc = "idle"
    /\ Robustness_Constant' = params.Robustness_Constant
    /\ UNCHANGED <<NRegions, desired_area, Prior, Alg_Params, Centers, Weights,
                   Covering, pc, err, last_call, last_init, last_args, pd, cp, ncalls>>
    /\ UNCHANGED paramVars

NextStatic ==
    \/ NextPartition
    \/ \E params \in OtherParamsValues : OtherPartitionCtor(params)

SpecStatic == InitPartition /\ [][NextStatic]_vars

\* The step is an InitializePartition call of this Partition that tests
\* centres with Region.pnpoly: the centres given, or the default centres
InitializeTestsCenters ==
    /\ pc = "idle" /\ last_call' = "InitializePartition" /\ ncalls' = ncalls + 1
    /\ NRegions # 0 /\ Prior.Region.NPoly > 0
    /\ Len(last_args'.cs) \in {0, NRegions}

\* C28: whenever a geometric predicate runs on behalf of a Partition (or of
\* the Density it uses as prior), the process-wide Point::Robustness_Constant
\* equals that Partition's Alg_Params.Robustness_Constant, also after
\* another Partition with a different Robustness_Constant is constructed or
\* SetPartitionVariables is called, in any interleaving of operations on the
\* two Partitions.
C28_StaticMatchesPartition ==
    [][InitializeTestsCenters
          => Robustness_Constant = Alg_Params.Robustness_Constant]_vars

----------------------------------------------------------------------------
(* Parameter ranges during CalculatePartition, checked under SpecCP.       *)

\* The range errors raised for an algorithm parameter after construction:
\* LineIntegral's for its spacing, GradientStepCenter's for its step
ParameterRangeErrors ==
    {"Spacing cannot be less than or equal to 0 or greater than 1",
     "temp_step must be between 0 and 1 (can be equal to 1, but not zero)"}

\* C30: every out-of-range algorithm parameter is rejected when Parameters
\* is constructed: for a Parameters value that CheckParameters accepts,
\* CalculatePartition never fails later with a parameter-range error; the
\* line-integral step size passed to LineIntegral in the weight step is
\* always inside the range (0,1] that LineIntegral requires.
C30_NoRangeErrorAfterConstruction ==
    CheckParameters(Alg_Params) = ""
        => /\ err \notin ParameterRangeErrors
           /\ cp.pc = "thrown"
                  => /\ Gt(Alg_Params.line_int_step, I(0))
                     /\ Le(Alg_Params.line_int_step, I(1))
=============================================================================
